---- MODULE Spec2Model ----
(***************************************************************************)
(* A model of the LanceDB table engine (rust/lancedb/src/table.rs and its  *)
(* builders): one table at one uri, the committed dataset versions of the  *)
(* substrate, the facades (NativeTable) opened on the uri with their       *)
(* dataset consistency wrappers, and the asynchronous operations running   *)
(* on the facades, cut at their suspension points.                         *)
(***************************************************************************)
EXTENDS Integers, Sequences, FiniteSets, TLC

\* ------------------------------------------------------------------ bounds

\* The number of dataset versions the substrate may hold (commits are capped).
MaxVersion == 3
\* The wall clock runs from 0 to MaxTime.
MaxTime == 3
\* A positive read consistency interval D, in clock ticks.
IntervalD == 2

Facades == {"A", "B", "C"}
Tasks == {"t1", "t2"}
NoTask == "none"

\* Option<T>: None is the empty set, Some(x) the singleton.
None == {}
Some(x) == {x}
Option(S) == {None} \cup {Some(x) : x \in S}
Unwrap(o) == CHOOSE x \in o : TRUE

\* read_consistency_interval: Option<Duration>
Intervals == Option({0, IntervalD})

\* ------------------------------------------------------------------ rows

Row(i, a) == [id |-> i, val |-> a]

\* The streams of rows handed to create, add and merge_insert: 0, 1 and 2 rows.
Streams == {<<>>, <<Row(0, 0)>>, <<Row(1, 1), Row(0, 0)>>}

Max(a, b) == IF a >= b THEN a ELSE b

\* SQL filter strings, by what the scanner evaluates them to on a row; a string
\* outside ValidFilters is one the scanner rejects.
ValidFilters == {"true", "id >= 1", "id > 5", "val = 0", "val = 3"}
Eval(filter, row) ==
    CASE filter = "true" -> TRUE
      [] filter = "id >= 1" -> row.id >= 1
      [] filter = "id > 5" -> row.id > 5
      [] filter = "val = 0" -> row.val = 0
      [] filter = "val = 3" -> row.val = 3
      [] OTHER -> FALSE

Matching(rows, filter) == SelectSeq(rows, LAMBDA r : Eval(filter, r))
NotMatching(rows, filter) == SelectSeq(rows, LAMBDA r : ~Eval(filter, r))


\* ------------------------------------------------------------------ substrate

Dataset(rows) == [rows |-> rows]

\* A faulty write, which keeps the rows of the base whatever the mode.
DatasetWriteAppends(base, data, mode) == [base EXCEPT !.rows = base.rows \o data]

\* Dataset::write(data, uri, params) on an existing dataset: the rows of the
\* version it commits (WriteMode::Create fails there: see AddWrite).
DatasetWrite(base, data, mode) ==
    IF mode = "Overwrite" THEN [base EXCEPT !.rows = data]
    ELSE [base EXCEPT !.rows = base.rows \o data]

\* The columns of the table.
Columns == {"id", "val"}

\* UpdateBuilder::set, called for each (column, value) of updates in turn.
RECURSIVE SetAll(_, _)
SetAll(r, updates) ==
    IF updates = <<>> THEN r
    ELSE SetAll([r EXCEPT ![updates[1][1]] = updates[1][2]], Tail(updates))

\* A faulty update, which sets the columns on every row.
UpdateRowUnconditionally(r, predicate, updates) == SetAll(r, updates)

\* UpdateBuilder: set the columns to their values on the rows the predicate
\* selects (every row when there is no predicate).
UpdateRow(r, predicate, updates) ==
    IF \A p \in predicate : Eval(p, r) THEN SetAll(r, updates) ELSE r
UpdateRows(rows, predicate, updates) ==
    [i \in DOMAIN rows |-> UpdateRow(rows[i], predicate, updates)]

\* The only_if conditions of when_matched_update, on the joined (target, source) row.
Conditions == {"target.val = 0", "source.val = 1"}
EvalJoined(condition, target, source) ==
    CASE condition = "target.val = 0" -> target.val = 0
      [] condition = "source.val = 1" -> source.val = 1
      [] OTHER -> FALSE

Keys(rows) == {rows[i].id : i \in DOMAIN rows}
RowsOf(rows) == {rows[i] : i \in DOMAIN rows}

\* MergeInsertBuilder, as NativeTable::merge_insert hands it to the substrate:
\* when_matched is None (DoNothing) or Some(condition) with condition None
\* (UpdateAll) or Some(filter) (update_if); when_not_matched is None (DoNothing)
\* or Some (InsertAll); when_not_matched_by_source is None (Keep) or Some(filter)
\* (delete_if).
MergeParams ==
    [when_matched : Option(Option(Conditions)),
     when_not_matched : BOOLEAN,
     when_not_matched_by_source : Option(ValidFilters)]

\* A faulty when_matched, which takes update_if for UpdateAll.
ReplacesUnconditionally(params, target, source) ==
    /\ params.when_matched # None
    /\ source.id = target.id

\* A target row is replaced when a source row with its key passes when_matched.
Replaces(params, target, source) ==
    /\ params.when_matched # None
    /\ source.id = target.id
    /\ \A condition \in Unwrap(params.when_matched) :
          EvalJoined(condition, target, source)

\* A faulty when_not_matched_by_source, which deletes where the clause is absent.
MergeKeepsMatchedOnly(params, target, source) ==
    /\ target.id \in Keys(source)
    /\ ~\E s \in RowsOf(source) : Replaces(params, target, s)

MergeKeeps(params, target, source) ==
    IF target.id \in Keys(source)
    THEN ~\E s \in RowsOf(source) : Replaces(params, target, s)
    ELSE \A filter \in params.when_not_matched_by_source : ~Eval(filter, target)

\* A faulty when_not_matched, which inserts the source rows of new keys although
\* the clause is absent.
MergeWritesUpserts(params, target, s) ==
    IF s.id \in Keys(target)
    THEN \E tr \in RowsOf(target) : Replaces(params, tr, s)
    ELSE TRUE

\* A faulty when_not_matched, which inserts every source row.
MergeWritesAll(params, target, s) == params.when_not_matched

MergeWrites(params, target, s) ==
    IF s.id \in Keys(target)
    THEN \E tr \in RowsOf(target) : Replaces(params, tr, s)
    ELSE params.when_not_matched

\* The rows after the merge: the target rows that stay, then the source rows
\* written (updated rows are deleted and reinserted at the end).
MergeRows(target, source, params) ==
    SelectSeq(target, LAMBDA tr : MergeKeeps(params, tr, source))
        \o SelectSeq(source, LAMBDA s : MergeWrites(params, target, s))

\* The mutations made through the exclusive view (get_mut).
MutOps == {"delete", "create_index", "compact_files"}
MutRows(op, arg, rows) ==
    IF op = "delete" THEN NotMatching(rows, arg) ELSE rows

\* ------------------------------------------------------------------ schema, vectors

\* Arrow data types and fields; a schema is a sequence of fields.
Int32 == [kind |-> "Int32"]
FixedSizeList(item, dim) == [kind |-> "FixedSizeList", item |-> item, dim |-> dim]
Field(name, type) == [name |-> name, type |-> type]
IsFloating(item) == item \in {"Float16", "Float32", "Float64"}
FieldNames(schema) == {schema[k].name : k \in DOMAIN schema}
FieldOf(schema, name) == schema[CHOOSE k \in DOMAIN schema : schema[k].name = name]

\* A dataset with its schema and the indices built on it.
DatasetWithSchema(rows, schema) == [rows |-> rows, schema |-> schema, indices |-> {}]

\* query.rs: DEFAULT_TOP_K
DEFAULT_TOP_K == 10

\* The squared L2 distance of two vectors of one dimension.
RECURSIVE Distance(_, _)
Distance(v, q) ==
    IF v = <<>> \/ q = <<>> THEN 0
    ELSE (v[1] - q[1]) * (v[1] - q[1]) + Distance(Tail(v), Tail(q))

\* scanner.nearest(column, q, k): the k rows nearest to q, nearest first, rows
\* at one distance in the order of the table.
RECURSIVE Nearest(_, _, _, _)
Nearest(rows, column, q, k) ==
    IF k = 0 \/ rows = <<>> THEN <<>>
    ELSE LET i == CHOOSE i \in DOMAIN rows : \A j \in DOMAIN rows :
                     \/ Distance(rows[i][column], q) < Distance(rows[j][column], q)
                     \/ /\ Distance(rows[i][column], q) = Distance(rows[j][column], q)
                        /\ i <= j
         IN  <<rows[i]>> \o Nearest(SubSeq(rows, 1, i - 1) \o SubSeq(rows, i + 1, Len(rows)),
                                    column, q, k - 1)

\* A faulty scan, which filters the k nearest rows whatever prefilter says.
NearestScanPostfilters(rows, near, filter) ==
    IF filter = None THEN Nearest(rows, near.column, near.q, near.k)
    ELSE Matching(Nearest(rows, near.column, near.q, near.k), Unwrap(filter))

\* The rows of a scan with nearest, filter and prefilter: with prefilter the
\* neighbours are chosen among the rows the filter keeps, without it the filter
\* is applied to the neighbours chosen.
NearestScan(rows, near, filter) ==
    IF filter = None THEN Nearest(rows, near.column, near.q, near.k)
    ELSE IF near.prefilter
         THEN Nearest(Matching(rows, Unwrap(filter)), near.column, near.q, near.k)
         ELSE Matching(Nearest(rows, near.column, near.q, near.k), Unwrap(filter))

\* ------------------------------------------------------------------ state

VARIABLES
    store,      \* the committed versions at the uri: store[v] is version v
    clock,      \* wall clock
    wrapper,    \* facade -> its DatasetConsistencyWrapper (state "closed": no facade yet)
    lock,       \* facade -> the task holding the exclusive mutation view
    task,       \* task -> the operation it runs and the suspension point it is at
    stream,     \* the stream returned by the last execute_stream
    builder,    \* the AddDataBuilder being configured, if any
    obs,        \* what the step just taken returned, when it was a read
    done,       \* the operation the step just taken ended, if any: how (res), which (tk)
    binding     \* the objects of a language binding: Table handle, index builders

vars == <<store, clock, wrapper, lock, task, stream, builder, obs, done, binding>>

Latest == Len(store)

\* wrapper fields: state, ds (the dataset held, by version), version (the pin of a
\* time-travel view), interval and last_refresh. History kept for the properties:
\* loaded (the version loaded on open or by the last refresh), own (a dataset was
\* installed by the facade since), acked (the newest version committed by a write
\* that completed on the facade).
Closed == [state |-> "closed", ds |-> 0, version |-> 0, interval |-> None,
           last_refresh |-> 0, loaded |-> 0, own |-> FALSE, acked |-> 0]

\* A task: the operation it runs (op), where it is in it (pc), the facade (f), its
\* argument and data, the version of the dataset it works from (snap) and the
\* version it committed (ver, 0 before the commit). History kept for the
\* properties: start and view (the newest version and the version of the read
\* view of the facade when the operation began).
Idle == [op |-> "idle", pc |-> "idle", f |-> "A", snap |-> 0, ver |-> 0,
         arg |-> None, data |-> <<>>, start |-> 0, view |-> 0]

\* AddDataBuilder: parent (the task and facade it was made for), data, mode and
\* write_options.lance_write_params (an Option of the WriteParams' mode).
NoBuilder == [live |-> FALSE, t |-> "t1", f |-> "A", data |-> <<>>,
              mode |-> "Append", wo |-> None]

\* The stream of a query: the version of the dataset its scanner holds, the
\* filter of the scan, the rows yielded so far. History kept for the properties:
\* latest (the newest committed version when it was last polled).
NoStream == [open |-> FALSE, f |-> "A", version |-> 0, filter |-> None,
             yielded |-> <<>>, latest |-> 0]
NoObs == [kind |-> "none", f |-> "A", arg |-> None, ver |-> 0, val |-> 0]
NoDone == [res |-> "none", tk |-> Idle]

\* No object of a binding exists: the table is used through the Rust API.
NoBinding == [live |-> FALSE]

IsOpen(f) == wrapper[f].state # "closed"

\* Facades are created in the order A, B, C.
NextSlot(f) ==
    /\ ~IsOpen(f)
    /\ f = "B" => IsOpen("A")
    /\ f = "C" => IsOpen("B")

\* DatasetConsistencyWrapper::new_latest(dataset, read_consistency_interval).
\* The time of the last refresh is kept only where it is read: with an interval.
NewLatest(v, interval) ==
    [state |-> "Latest", ds |-> v, version |-> 0, interval |-> interval,
     last_refresh |-> IF interval = None THEN 0 ELSE clock,
     loaded |-> v, own |-> FALSE, acked |-> 0]

\* DatasetConsistencyWrapper::new_time_travel(dataset, version); interval is the
\* facade's read_consistency_interval, kept for checkout_latest.
NewTimeTravel(v, interval) ==
    [state |-> "TimeTravel", ds |-> v, version |-> v, interval |-> interval,
     last_refresh |-> 0, loaded |-> v, own |-> FALSE, acked |-> 0]

\* A faulty policy, which refreshes as soon as the interval has passed.
NeedsRefreshAtInterval(w) ==
    /\ w.state = "Latest"
    /\ \E d \in w.interval : clock - w.last_refresh >= d

\* get(): whether the view is refreshed first. Interval 0 refreshes on every
\* get(), an interval D > 0 when more than D has passed since the last refresh.
NeedsRefresh(w) ==
    /\ w.state = "Latest"
    /\ \E d \in w.interval : d = 0 \/ clock - w.last_refresh > d

Refreshed(w) ==
    [w EXCEPT !.ds = Latest, !.last_refresh = clock, !.loaded = Latest, !.own = FALSE]

\* The wrapper after get(), and the version the read view resolves to.
AfterGet(w) == IF NeedsRefresh(w) THEN Refreshed(w) ELSE w
GetVersion(w) == IF w.state = "TimeTravel" THEN w.version ELSE AfterGet(w).ds

\* set_latest(ds): replace the latest dataset.
SetLatest(w, v) == [w EXCEPT !.ds = v, !.own = TRUE]

Init ==
    /\ \E rows \in Streams : store = <<Dataset(rows)>>
    /\ clock = 0
    /\ \E i \in Intervals :
         wrapper = [f \in Facades |-> IF f = "A" THEN NewLatest(1, i) ELSE Closed]
    /\ lock = [f \in Facades |-> NoTask]
    /\ task = [t \in Tasks |-> Idle]
    /\ stream = NoStream
    /\ builder = NoBuilder
    /\ obs = NoObs
    /\ done = NoDone
    /\ binding = NoBinding

\* ------------------------------------------------------------------ time, facades

Tick ==
    /\ clock < MaxTime
    /\ clock' = clock + 1
    /\ obs' = NoObs
    /\ done' = NoDone
    /\ UNCHANGED <<store, wrapper, lock, task, stream, builder, binding>>

\* NativeTable::open_with_params(uri, .., read_consistency_interval)
Open(f, interval) ==
    /\ NextSlot(f)
    /\ wrapper' = [wrapper EXCEPT ![f] = NewLatest(Latest, interval)]
    /\ obs' = NoObs
    /\ done' = NoDone
    /\ UNCHANGED <<store, clock, lock, task, stream, builder, binding>>

\* NativeTable::checkout_with_params(uri, .., version, .., read_consistency_interval)
Checkout(f, v, interval) ==
    /\ NextSlot(f)
    /\ v \in 1..Latest
    /\ wrapper' = [wrapper EXCEPT ![f] = NewTimeTravel(v, interval)]
    /\ obs' = NoObs
    /\ done' = NoDone
    /\ UNCHANGED <<store, clock, lock, task, stream, builder, binding>>

\* A faulty checkout_latest, which turns the facade it is called on to latest mode.
CheckoutLatestInPlace(src, f) ==
    /\ IsOpen(src)
    /\ NextSlot(f)
    /\ wrapper' = [wrapper EXCEPT ![src] = NewLatest(Latest, wrapper[src].interval)]
    /\ obs' = NoObs
    /\ done' = NoDone
    /\ UNCHANGED <<store, clock, lock, task, stream, builder, binding>>

\* NativeTable::checkout_latest(&self): a new facade over a duplicate of the
\* wrapper, turned to latest mode with the facade's read_consistency_interval.
CheckoutLatest(src, f) ==
    /\ IsOpen(src)
    /\ NextSlot(f)
    /\ wrapper' = [wrapper EXCEPT ![f] = NewLatest(Latest, wrapper[src].interval)]
    /\ obs' = NoObs
    /\ done' = NoDone
    /\ UNCHANGED <<store, clock, lock, task, stream, builder, binding>>

\* ------------------------------------------------------------------ reads

Observed(kind, f, arg, ver, val) ==
    [kind |-> kind, f |-> f, arg |-> arg, ver |-> ver, val |-> val]

\* A read that fails returns an error and leaves everything as it was.
ReadFails(f) ==
    /\ obs' = Observed("error", f, None, 0, 0)
    /\ UNCHANGED wrapper

\* A faulty version(), which reads the dataset held without going through get().
VersionUnrefreshed(f, ok) ==
    /\ IsOpen(f)
    /\ obs' = Observed("version", f, None, wrapper[f].ds, wrapper[f].ds)
    /\ done' = NoDone
    /\ UNCHANGED <<store, clock, wrapper, lock, task, stream, builder, binding>>

\* NativeTable::version
Version(f, ok) ==
    /\ IsOpen(f)
    /\ IF NeedsRefresh(wrapper[f]) /\ ~ok
       THEN ReadFails(f)
       ELSE /\ wrapper' = [wrapper EXCEPT ![f] = AfterGet(@)]
            /\ obs' = Observed("version", f, None, GetVersion(wrapper[f]),
                              GetVersion(wrapper[f]))
    /\ done' = NoDone
    /\ UNCHANGED <<store, clock, lock, task, stream, builder, binding>>

\* The value of count_rows(filter) on a dataset.
CountOf(ds, filter) ==
    IF filter = None THEN Len(ds.rows) ELSE Len(Matching(ds.rows, Unwrap(filter)))

\* A faulty count_rows, which waits until nobody holds the mutation view.
CountRowsWaits(f, filter, ok) ==
    /\ IsOpen(f)
    /\ lock[f] = NoTask
    /\ obs' = Observed("count_rows", f, filter, wrapper[f].ds,
                       CountOf(store[wrapper[f].ds], filter))
    /\ done' = NoDone
    /\ UNCHANGED <<store, clock, wrapper, lock, task, stream, builder, binding>>

\* NativeTable::count_rows(filter)
CountRows(f, filter, ok) ==
    /\ IsOpen(f)
    /\ IF NeedsRefresh(wrapper[f]) /\ ~ok
       THEN ReadFails(f)
       ELSE LET v == GetVersion(wrapper[f])
            IN  /\ wrapper' = [wrapper EXCEPT ![f] = AfterGet(@)]
                /\ obs' = IF \E x \in filter : x \notin ValidFilters
                          THEN Observed("error", f, filter, 0, 0)
                          ELSE Observed("count_rows", f, filter, v,
                                        CountOf(store[v], filter))
    /\ done' = NoDone
    /\ UNCHANGED <<store, clock, lock, task, stream, builder, binding>>

\* The filter the scanner of a query runs with: the Result of scanner.filter(f)
\* is dropped, so a filter the scanner rejects leaves the scan unfiltered.
ScanFilter(filter) ==
    IF \E x \in filter : x \in ValidFilters THEN filter ELSE None

\* NativeTable::query (no query vector): the scanner is built on the read view.
Query(f, filter, ok) ==
    /\ IsOpen(f)
    /\ IF NeedsRefresh(wrapper[f]) /\ ~ok
       THEN ReadFails(f) /\ UNCHANGED stream
       ELSE LET v == GetVersion(wrapper[f])
            IN  /\ wrapper' = [wrapper EXCEPT ![f] = AfterGet(@)]
                /\ stream' = [open |-> TRUE, f |-> f, version |-> v,
                              filter |-> ScanFilter(filter), yielded |-> <<>>,
                              latest |-> Latest]
                /\ obs' = Observed("query", f, filter, v, 0)
    /\ done' = NoDone
    /\ UNCHANGED <<store, clock, lock, task, builder, binding>>

\* A faulty stream, which scans the newest committed version as it is polled.
StreamSourceLatest(st) ==
    IF st.filter = None THEN store[Latest].rows
    ELSE Matching(store[Latest].rows, Unwrap(st.filter))

\* The rows a stream has to yield: those of the dataset its scanner holds; a
\* stream made with a query vector carries the parameters of nearest.
StreamSource(st) ==
    IF "nearest" \in DOMAIN st
    THEN NearestScan(store[st.version].rows, st.nearest, st.filter)
    ELSE IF st.filter = None THEN store[st.version].rows
         ELSE Matching(store[st.version].rows, Unwrap(st.filter))

\* The stream is polled: it yields its next row.
StreamNext ==
    /\ stream.open
    /\ Len(stream.yielded) < Len(StreamSource(stream))
    /\ stream' = [stream EXCEPT
                    !.yielded = Append(@, StreamSource(stream)[Len(stream.yielded) + 1]),
                    !.latest = Latest]
    /\ obs' = NoObs
    /\ done' = NoDone
    /\ UNCHANGED <<store, clock, wrapper, lock, task, builder, binding>>

\* ------------------------------------------------------------------ writes

\* The operation of task t, in the state tk, returns or is dropped.
Finish(t, tk, res) ==
    /\ task' = [task EXCEPT ![t] = Idle]
    /\ done' = [res |-> res, tk |-> tk]

\* An operation begins on facade f.
Begin(f, op, arg, data) ==
    [Idle EXCEPT !.op = op, !.f = f, !.arg = arg, !.data = data,
                 !.start = Latest, !.view = GetVersion(wrapper[f])]

CanCommit == Latest < MaxVersion

\* The last step of add, update and merge_insert: self.dataset.set_latest(ds).
\* It takes the wrapper exclusively; on a time-travel wrapper there is no latest
\* dataset to replace and the call does not return.
Install(t) ==
    LET f == task[t].f
    IN  /\ task[t].pc = "install"
        /\ lock[f] = NoTask
        /\ IF wrapper[f].state = "Latest"
           THEN /\ wrapper' = [wrapper EXCEPT
                                 ![f] = [SetLatest(@, task[t].ver) EXCEPT
                                           !.acked = Max(@, task[t].ver)]]
                /\ Finish(t, task[t], "ok")
           ELSE /\ UNCHANGED wrapper
                /\ Finish(t, task[t], "abort")
        /\ obs' = NoObs
        /\ UNCHANGED <<store, clock, lock, stream, builder, binding>>

\* Table::add(batches): a builder with mode Append and default WriteOptions.
AddNew(t, f, data) ==
    /\ task[t].op = "idle"
    /\ ~builder.live
    /\ IsOpen(f)
    /\ builder' = [live |-> TRUE, t |-> t, f |-> f, data |-> data,
                   mode |-> "Append", wo |-> None]
    /\ task' = [task EXCEPT ![t] = [Idle EXCEPT !.op = "add", !.pc = "built", !.f = f]]
    /\ obs' = NoObs
    /\ done' = NoDone
    /\ UNCHANGED <<store, clock, wrapper, lock, stream, binding>>

\* AddDataBuilder::mode
AddMode(m) ==
    /\ builder.live
    /\ builder' = [builder EXCEPT !.mode = m]
    /\ obs' = NoObs
    /\ done' = NoDone
    /\ UNCHANGED <<store, clock, wrapper, lock, task, stream, binding>>

\* AddDataBuilder::write_options
AddWriteOptions(o) ==
    /\ builder.live
    /\ builder' = [builder EXCEPT !.wo = o]
    /\ obs' = NoObs
    /\ done' = NoDone
    /\ UNCHANGED <<store, clock, wrapper, lock, task, stream, binding>>

\* A faulty precedence, where the mode of the builder wins over the WriteParams.
LanceModeOfBuilder(b) == b.mode

\* The WriteMode of lance_params in NativeTable::add:
\* add.write_options.lance_write_params.unwrap_or(WriteParams { mode: add.mode, .. })
LanceMode(b) == IF b.wo # None THEN Unwrap(b.wo) ELSE b.mode

\* AddDataBuilder::execute -> NativeTable::add, up to Dataset::write(..).await?
\* The write is made on the newest version at the uri; it fails on
\* WriteMode::Create (the dataset exists) or on storage.
AddWrite(ok) ==
    LET t == builder.t
        tk == [Begin(builder.f, "add", [mode |-> builder.mode, wo |-> builder.wo],
                     builder.data)
                 EXCEPT !.pc = "install", !.snap = Latest]
    IN  /\ builder.live
        /\ builder' = NoBuilder
        /\ IF ~ok \/ LanceMode(builder) = "Create"
           THEN Finish(t, tk, "err") /\ UNCHANGED store
           ELSE /\ CanCommit
                /\ store' = Append(store, DatasetWrite(store[Latest], builder.data,
                                                       LanceMode(builder)))
                /\ task' = [task EXCEPT ![t] = [tk EXCEPT !.ver = Latest + 1]]
                /\ done' = NoDone
        /\ obs' = NoObs
        /\ UNCHANGED <<clock, wrapper, lock, stream, binding>>

\* NativeTable::add: self.dataset.set_latest(dataset).await
AddInstall(t) == task[t].op = "add" /\ Install(t)

\* A commit made from the dataset of version snap when newer versions exist: the
\* substrate rebases it when the newer versions only added rows after those of
\* snap, and reports a conflict otherwise.
IsPrefix(p, s) == Len(p) <= Len(s) /\ SubSeq(s, 1, Len(p)) = p
Conflicts(snap) == ~IsPrefix(store[snap].rows, store[Latest].rows)
Rebased(snap, rows) ==
    [store[Latest] EXCEPT
       !.rows = rows \o SubSeq(store[Latest].rows, Len(store[snap].rows) + 1,
                               Len(store[Latest].rows))]

\* What the operation of a task makes of the rows of its dataset.
OpRows(tk, rows) ==
    CASE tk.op = "update" -> UpdateRows(rows, tk.arg.predicate, tk.arg.updates)
      [] tk.op = "merge_insert" -> MergeRows(rows, tk.data, tk.arg)
      [] OTHER -> MutRows(tk.op, tk.arg, rows)

\* The operations that end in Dataset::create_index.
IndexOps == {"create_ivf_pq_index", "create_btree_index"}

\* Whether the dataset has an index on the column (an index is named after its
\* column: the name passed to create_index is None).
IndexExists(ds, column) == \E i \in ds.indices : i.column = column

\* A faulty replacement, which keeps the index that was there.
CreateIndexKeepsOld(ds, entry) == [ds EXCEPT !.indices = @ \cup {entry}]

\* Dataset::create_index(columns, type, None, params, replace) when it succeeds:
\* the index takes the place of the one the column had.
CreateIndex(ds, entry) ==
    [ds EXCEPT !.indices = {i \in @ : i.column # entry.column} \cup {entry}]

\* The error of Dataset::create_index as the table returns it, "none" when there
\* is none: with replace = false an index that exists is not rebuilt.
CreateIndexError(tk) ==
    IF tk.op \in IndexOps /\ ~tk.arg.index.replace
          /\ IndexExists(store[tk.snap], tk.arg.column)
    THEN "IndexAlreadyExists"
    ELSE "none"

\* The index a task creates: its column, its type, its parameters, and the version
\* it is committed in.
IndexEntry(tk) ==
    IF tk.op = "create_ivf_pq_index"
    THEN [column |-> tk.arg.column, type |-> "Vector", version |-> Latest + 1,
          num_partitions |-> tk.arg.num_partitions,
          num_sub_vectors |-> tk.arg.num_sub_vectors]
    ELSE [column |-> tk.arg.column, type |-> "Scalar", version |-> Latest + 1]

\* The dataset its commit creates; create_index adds the index it trained.
Commit(tk) ==
    LET ds == Rebased(tk.snap, OpRows(tk, store[tk.snap].rows))
    IN  IF tk.op \in IndexOps THEN CreateIndex(ds, IndexEntry(tk)) ELSE ds

\* Whether the substrate accepts the SQL of the operation.
InputValid(tk) ==
    CASE tk.op = "update" ->
            /\ \A p \in tk.arg.predicate : p \in ValidFilters
            /\ \A k \in DOMAIN tk.arg.updates : tk.arg.updates[k][1] \in Columns
      [] tk.op = "delete" -> tk.arg \in ValidFilters
      [] tk.op = "create_ivf_pq_index" ->
            LET type == FieldOf(store[tk.snap].schema, tk.arg.column).type
            IN  type.kind = "FixedSizeList" /\ IsFloating(type.item)
      [] OTHER -> TRUE

\* The first step of update and merge_insert: self.dataset.get().await?.clone()
ReadSnapshot(t, f, op, arg, data, ok) ==
    /\ task[t].op = "idle"
    /\ IsOpen(f)
    /\ IF NeedsRefresh(wrapper[f]) /\ ~ok
       THEN Finish(t, Begin(f, op, arg, data), "err") /\ UNCHANGED wrapper
       ELSE /\ wrapper' = [wrapper EXCEPT ![f] = AfterGet(@)]
            /\ task' = [task EXCEPT ![t] = [Begin(f, op, arg, data) EXCEPT
                          !.pc = "exec", !.snap = GetVersion(wrapper[f])]]
            /\ done' = NoDone
    /\ obs' = NoObs
    /\ UNCHANGED <<store, clock, lock, stream, builder, binding>>

\* A faulty execution, which leaves a version behind when it fails.
ExecuteLeaks(t, ok) ==
    /\ task[t].pc = "exec"
    /\ CanCommit
    /\ IF ~ok \/ ~InputValid(task[t]) \/ Conflicts(task[t].snap)
       THEN /\ Finish(t, task[t], "err")
            /\ store' = Append(store, store[Latest])
       ELSE /\ store' = Append(store, Commit(task[t]))
            /\ task' = [task EXCEPT ![t].pc = "install", ![t].ver = Latest + 1]
            /\ done' = NoDone
    /\ obs' = NoObs
    /\ UNCHANGED <<clock, wrapper, lock, stream, builder, binding>>

\* The substrate builds and commits the new version from the snapshot, or fails.
Execute(t, ok) ==
    /\ task[t].pc = "exec"
    /\ IF ~ok \/ ~InputValid(task[t]) \/ Conflicts(task[t].snap)
       THEN Finish(t, task[t], "err") /\ UNCHANGED store
       ELSE /\ CanCommit
            /\ store' = Append(store, Commit(task[t]))
            /\ task' = [task EXCEPT ![t].pc = "install", ![t].ver = Latest + 1]
            /\ done' = NoDone
    /\ obs' = NoObs
    /\ UNCHANGED <<clock, wrapper, lock, stream, builder, binding>>

\* NativeTable::update(predicate, updates)
UpdateRead(t, f, predicate, updates, ok) ==
    ReadSnapshot(t, f, "update", [predicate |-> predicate, updates |-> updates], <<>>, ok)
UpdateExecute(t, ok) == task[t].op = "update" /\ Execute(t, ok)
UpdateInstall(t) == task[t].op = "update" /\ Install(t)

\* NativeTable::merge_insert(params, new_data)
MergeRead(t, f, params, data, ok) ==
    ReadSnapshot(t, f, "merge_insert", params, data, ok)
MergeExecute(t, ok) == task[t].op = "merge_insert" /\ Execute(t, ok)
MergeInstall(t) == task[t].op = "merge_insert" /\ Install(t)

\* delete, create_*_index or compact_files is called: the operation is about to
\* ask for the mutation view. Index creation reads the schema first.
MutStart(t, f, op, arg, ok) ==
    /\ task[t].op = "idle"
    /\ IsOpen(f)
    /\ op # "delete" => arg = "true"
    /\ IF op = "create_index" /\ NeedsRefresh(wrapper[f]) /\ ~ok
       THEN Finish(t, Begin(f, op, arg, <<>>), "err") /\ UNCHANGED wrapper
       ELSE /\ wrapper' = [wrapper EXCEPT
                             ![f] = IF op = "create_index" THEN AfterGet(@) ELSE @]
            /\ task' = [task EXCEPT ![t] = [Begin(f, op, arg, <<>>) EXCEPT !.pc = "wait"]]
            /\ done' = NoDone
    /\ obs' = NoObs
    /\ UNCHANGED <<store, clock, lock, stream, builder, binding>>

\* self.dataset.get_mut().await?: the view is brought up to date and taken
\* exclusively; a time-travel view cannot be mutated.
MutAcquire(t, ok) ==
    LET f == task[t].f
    IN  /\ task[t].pc = "wait"
        /\ IF NeedsRefresh(wrapper[f]) /\ ~ok
           THEN Finish(t, task[t], "err") /\ UNCHANGED <<wrapper, lock>>
           ELSE /\ lock[f] = NoTask
                /\ wrapper' = [wrapper EXCEPT ![f] = AfterGet(@)]
                /\ IF wrapper[f].state = "TimeTravel"
                   THEN Finish(t, task[t], "err") /\ UNCHANGED lock
                   ELSE /\ lock' = [lock EXCEPT ![f] = t]
                        /\ task' = [task EXCEPT ![t].pc = "run",
                                                ![t].snap = GetVersion(wrapper[f])]
                        /\ done' = NoDone
        /\ obs' = NoObs
        /\ UNCHANGED <<store, clock, stream, builder, binding>>

\* The scope of the mutation view ends: the view is released.
Release(f) == lock' = [lock EXCEPT ![f] = NoTask]

\* A faulty mutation, which keeps the view when it fails.
MutFinishKeeps(t, ok) ==
    LET f == task[t].f
    IN  /\ task[t].pc = "run"
        /\ IF ~ok \/ ~InputValid(task[t]) \/ Conflicts(task[t].snap)
           THEN Finish(t, task[t], "err") /\ UNCHANGED <<store, wrapper, lock>>
           ELSE IF CreateIndexError(task[t]) # "none"
           THEN /\ Finish(t, task[t], CreateIndexError(task[t]))
                /\ UNCHANGED <<store, wrapper, lock>>
           ELSE /\ CanCommit
                /\ Release(f)
                /\ store' = Append(store, Commit(task[t]))
                /\ wrapper' = [wrapper EXCEPT
                                 ![f] = [SetLatest(@, Latest + 1) EXCEPT
                                           !.acked = Max(@, Latest + 1)]]
                /\ Finish(t, [task[t] EXCEPT !.ver = Latest + 1], "ok")
        /\ obs' = NoObs
        /\ UNCHANGED <<clock, stream, builder, binding>>

\* The mutation on the exclusive view returns: on success its commit is the
\* dataset of the wrapper; either way the view is released.
MutFinish(t, ok) ==
    LET f == task[t].f
    IN  /\ task[t].pc = "run"
        /\ Release(f)
        /\ IF ~ok \/ ~InputValid(task[t]) \/ Conflicts(task[t].snap)
           THEN Finish(t, task[t], "err") /\ UNCHANGED <<store, wrapper>>
           ELSE IF CreateIndexError(task[t]) # "none"
           THEN /\ Finish(t, task[t], CreateIndexError(task[t]))
                /\ UNCHANGED <<store, wrapper>>
           ELSE /\ CanCommit
                /\ store' = Append(store, Commit(task[t]))
                /\ wrapper' = [wrapper EXCEPT
                                 ![f] = [SetLatest(@, Latest + 1) EXCEPT
                                           !.acked = Max(@, Latest + 1)]]
                /\ Finish(t, [task[t] EXCEPT !.ver = Latest + 1], "ok")
        /\ obs' = NoObs
        /\ UNCHANGED <<clock, stream, builder, binding>>

\* The future of an operation is dropped at a suspension point. A commit in
\* flight has happened or not; nothing is installed and the view is released.
Cancel(t, committed) ==
    LET f == task[t].f
        commits == committed /\ task[t].pc \in {"exec", "run"}
    IN  /\ task[t].pc \in {"exec", "install", "wait", "run"}
        /\ task[t].pc = "install" => committed
        /\ task[t].pc = "wait" => ~committed
        /\ IF commits
           THEN /\ CanCommit
                /\ InputValid(task[t])
                /\ ~Conflicts(task[t].snap)
                /\ store' = Append(store, Commit(task[t]))
           ELSE UNCHANGED store
        /\ IF lock[f] = t THEN Release(f) ELSE UNCHANGED lock
        /\ Finish(t, IF commits THEN [task[t] EXCEPT !.ver = Latest + 1] ELSE task[t],
                  "cancelled")
        /\ obs' = NoObs
        /\ UNCHANGED <<clock, wrapper, stream, builder, binding>>

\* ------------------------------------------------------------------ specifications

\* The inputs the operations are called with.
Modes == {"Append", "Overwrite"}
WriteModes == {"Create", "Append", "Overwrite"}

\* Appends and overwrites by one caller, through the builder, on the facade of
\* the table; counts in between, as time passes.
NextAdd ==
    \/ Tick
    \/ \E data \in Streams : AddNew("t1", "A", data)
    \/ \E m \in Modes : AddMode(m)
    \/ \E o \in Option(WriteModes) : AddWriteOptions(o)
    \/ \E ok \in BOOLEAN : AddWrite(ok)
    \/ AddInstall("t1")
    \/ \E ok \in BOOLEAN : CountRows("A", None, ok)

SpecAdd == Init /\ [][NextAdd]_vars

\* Two facades in latest mode on the uri, each with its interval: appends of one
\* row through either, and reads of both, as time passes.
NextRefresh ==
    \/ Tick
    \/ \E i \in Intervals : Open("B", i)
    \/ \E f \in {"A", "B"} : AddNew("t1", f, <<Row(0, 0)>>)
    \/ \E ok \in BOOLEAN : AddWrite(ok)
    \/ AddInstall("t1")
    \/ \E f \in {"A", "B"}, ok \in BOOLEAN : Version(f, ok)
    \/ \E f \in {"A", "B"}, ok \in BOOLEAN : CountRows(f, None, ok)

SpecRefresh == Init /\ [][NextRefresh]_vars

UpdatePredicates == {None, Some("id >= 1"), Some("id >>")}
DeleteFilters == {"val = 0", "id >>"}
MergeInputs ==
    {[when_matched |-> None, when_not_matched |-> TRUE,
      when_not_matched_by_source |-> None],
     [when_matched |-> Some(None), when_not_matched |-> TRUE,
      when_not_matched_by_source |-> None],
     [when_matched |-> Some(Some("target.val = 0")), when_not_matched |-> FALSE,
      when_not_matched_by_source |-> Some("true")]}

\* Every kind of write by one caller on the facade of the table, each running to
\* its end, failing, or dropped at a suspension point; reads in between.
NextWrite ==
    \/ \E data \in Streams : AddNew("t1", "A", data)
    \/ \E ok \in BOOLEAN : AddWrite(ok)
    \/ AddInstall("t1")
    \/ \E p \in UpdatePredicates, ok \in BOOLEAN : UpdateRead("t1", "A", p, <<<<"val", 1>>>>, ok)
    \/ \E ok \in BOOLEAN : UpdateExecute("t1", ok)
    \/ UpdateInstall("t1")
    \/ \E params \in MergeInputs, data \in Streams, ok \in BOOLEAN :
         MergeRead("t1", "A", params, data, ok)
    \/ \E ok \in BOOLEAN : MergeExecute("t1", ok)
    \/ MergeInstall("t1")
    \/ \E op \in MutOps, arg \in DeleteFilters \cup {"true"}, ok \in BOOLEAN :
         MutStart("t1", "A", op, arg, ok)
    \/ \E ok \in BOOLEAN : MutAcquire("t1", ok)
    \/ \E ok \in BOOLEAN : MutFinish("t1", ok)
    \/ \E committed \in BOOLEAN : Cancel("t1", committed)
    \/ \E ok \in BOOLEAN : Version("A", ok)
    \/ \E ok \in BOOLEAN : CountRows("A", None, ok)

SpecWrite == Init /\ [][NextWrite]_vars

ReadFilters == {None, Some("id >= 1"), Some("id >>")}

\* Queries on the facade of the table and the polling of their stream, while
\* appends and overwrites commit through it and through a second facade.
NextStream ==
    \/ Open("B", None)
    \/ \E f \in {"A", "B"}, data \in {<<>>, <<Row(1, 1)>>} : AddNew("t1", f, data)
    \/ \E m \in Modes : AddMode(m)
    \/ \E ok \in BOOLEAN : AddWrite(ok)
    \/ AddInstall("t1")
    \/ \E filter \in ReadFilters, ok \in BOOLEAN : Query("A", filter, ok)
    \/ StreamNext

SpecStream == Init /\ [][NextStream]_vars

\* A facade checked out at a version and a facade made from it by
\* checkout_latest, beside the facade of the table: appends and deletes through
\* the first two, reads of all, as time passes.
NextPin ==
    \/ Tick
    \/ \E v \in 1..MaxVersion : Checkout("B", v, None)
    \/ CheckoutLatest("B", "C")
    \/ \E f \in {"A", "B"} : AddNew("t1", f, <<Row(0, 0)>>)
    \/ \E ok \in BOOLEAN : AddWrite(ok)
    \/ AddInstall("t1")
    \/ \E f \in {"A", "B"}, ok \in BOOLEAN : MutStart("t1", f, "delete", "val = 0", ok)
    \/ \E ok \in BOOLEAN : MutAcquire("t1", ok)
    \/ \E ok \in BOOLEAN : MutFinish("t1", ok)
    \/ \E f \in Facades, ok \in BOOLEAN : Version(f, ok)
    \/ \E ok \in BOOLEAN : CountRows("B", None, ok)

SpecPin == Init /\ [][NextPin]_vars

\* Two callers on the facade of the table: appends, updates and deletes that
\* interleave at their suspension points, and reads.
NextConc ==
    \/ \E t \in Tasks : AddNew(t, "A", <<Row(0, 0)>>)
    \/ \E ok \in BOOLEAN : AddWrite(ok)
    \/ \E t \in Tasks : AddInstall(t)
    \/ \E t \in Tasks, ok \in BOOLEAN : UpdateRead(t, "A", None, <<<<"val", 1>>>>, ok)
    \/ \E t \in Tasks, ok \in BOOLEAN : UpdateExecute(t, ok)
    \/ \E t \in Tasks : UpdateInstall(t)
    \/ \E t \in Tasks, ok \in BOOLEAN : MutStart(t, "A", "delete", "val = 0", ok)
    \/ \E t \in Tasks, ok \in BOOLEAN : MutAcquire(t, ok)
    \/ \E t \in Tasks, ok \in BOOLEAN : MutFinish(t, ok)
    \/ \E ok \in BOOLEAN : Version("A", ok)
    \/ \E ok \in BOOLEAN : CountRows("A", None, ok)

SpecConc == Init /\ [][NextConc]_vars

\* Two callers that delete, build an index and compact through the mutation view
\* of the facade, and may be dropped while they wait for it or hold it. An
\* operation that holds the view runs to its end; the view is handed to those
\* that wait for it in turn.
NextMut ==
    \/ \E t \in Tasks, op \in MutOps, ok \in BOOLEAN : MutStart(t, "A", op, "true", ok)
    \/ \E t \in Tasks, ok \in BOOLEAN : MutAcquire(t, ok)
    \/ \E t \in Tasks, ok \in BOOLEAN : MutFinish(t, ok)
    \/ \E t \in Tasks, committed \in BOOLEAN : Cancel(t, committed)

FairSpec ==
    /\ Init
    /\ [][NextMut]_vars
    /\ \A t \in Tasks : WF_vars(\E ok \in BOOLEAN : MutFinish(t, ok))
    /\ \A t \in Tasks : SF_vars(\E ok \in BOOLEAN : MutAcquire(t, ok))

\* ------------------------------------------------------------------ properties

\* The step is count_rows(None) on the facade on which an add in mode m has just
\* completed: the builder was set to m and carried no WriteParams, or WriteParams
\* of mode m.
CountsAfterAdd(m) ==
    /\ done.res = "ok" /\ done.tk.op = "add"
    /\ done.tk.arg.mode = m /\ done.tk.arg.wo \in {None, Some(m)}
    /\ obs'.kind = "count_rows" /\ obs'.f = done.tk.f /\ obs'.arg = None

\* C1: when the table holds n rows and add(stream) of k rows completes, the
\* count_rows(None) that follows on the facade returns n + k in Append mode; in
\* Overwrite mode it returns k and the table holds exactly the rows of the stream.
C1_CountAfterAdd ==
    [][/\ CountsAfterAdd("Append") =>
            obs'.val = Len(store[done.tk.snap].rows) + Len(done.tk.data)
       /\ CountsAfterAdd("Overwrite") =>
            /\ obs'.val = Len(done.tk.data)
            /\ store[obs'.ver].rows = done.tk.data]_vars

\* An overwrite with 2 rows, after an append of 2 rows to a table of 1 row, counted.
C1_Witness ==
    /\ obs.kind = "count_rows" /\ obs.arg = None /\ obs.f = "A"
    /\ obs.ver = 3 /\ wrapper["A"].acked = 3
    /\ Len(store[1].rows) = 1 /\ Len(store[2].rows) = 3
    /\ obs.val = 2 /\ Len(store[3].rows) = 2

\* C10: the write of add(..).execute() uses the mode of the WriteParams when
\* write_options carried one, and the mode of the builder (Append unless mode()
\* was called) otherwise, in whatever order mode() and write_options() were
\* called; a write in Create mode on the existing table fails.
C10_ModePrecedence ==
    [][(builder.live /\ ~builder'.live) =>
         LET m == IF builder.wo = None THEN builder.mode
                  ELSE CHOOSE x \in WriteModes : builder.wo = {x}
             base == store[Latest].rows
         IN  /\ m = "Create" => done'.res = "err"
             /\ done'.res = "err" => store' = store
             /\ (done'.res # "err" /\ m = "Append") =>
                   store' = Append(store, [rows |-> base \o builder.data])
             /\ (done'.res # "err" /\ m = "Overwrite") =>
                   store' = Append(store, [rows |-> builder.data])]_vars

\* A write made with mode(Append) and explicit WriteParams of mode Overwrite has
\* replaced the rows of a table that was not empty.
C10_Witness ==
    /\ task["t1"].op = "add" /\ task["t1"].pc = "install"
    /\ task["t1"].arg.mode = "Append" /\ task["t1"].arg.wo = Some("Overwrite")
    /\ Len(store[task["t1"].snap].rows) > 0
    /\ Len(task["t1"].data) > 0
    /\ store[task["t1"].ver].rows = task["t1"].data

\* The step is a read that returned on a facade in latest mode.
ReadsLatest(f) ==
    /\ obs'.kind \in {"version", "count_rows"} /\ obs'.f = f
    /\ wrapper[f].state = "Latest"

\* What the policy promises of the version a read of facade f observes: without
\* an interval the version loaded on open, with interval 0 the newest committed
\* version, with an interval D > 0 the version of the last refresh while at
\* most D has passed since and the newest committed version once more has.
ObservesByPolicy(f) ==
    LET w == wrapper[f]
    IN  /\ w.interval = None => obs'.ver = w.loaded
        /\ w.interval = Some(0) => obs'.ver = Latest
        /\ \A d \in w.interval \ {0} :
              IF clock - w.last_refresh > d THEN obs'.ver = Latest
              ELSE obs'.ver = w.loaded

\* C3: a read of a facade in latest mode that has installed no write of its own
\* since it loaded its dataset observes a commit made through another facade
\* according to its interval alone: never without an interval, at once with
\* interval 0, and with D > 0 only once more than D has passed since its last
\* refresh.
C3_ObservesByInterval ==
    [][\A f \in Facades :
         (ReadsLatest(f) /\ (wrapper[f].own => wrapper[f].interval = Some(0)))
            => ObservesByPolicy(f)]_vars

\* C3 as stated: once A has completed a write committed after B loaded its
\* dataset, every read of B observes by B's interval, whatever B itself has done.
C3_AsStated ==
    [][(ReadsLatest("B") /\ wrapper["A"].acked > wrapper["B"].loaded)
          => ObservesByPolicy("B")]_vars

\* B, with interval D, has read after A committed and more than D after it was
\* opened: the read refreshed it and counted the row A added.
C3_Witness ==
    /\ obs.kind = "count_rows" /\ obs.f = "B"
    /\ wrapper["B"].interval = Some(IntervalD)
    /\ ~wrapper["B"].own /\ wrapper["A"].acked = 2
    /\ wrapper["B"].last_refresh > IntervalD
    /\ obs.ver = 2 /\ obs.val = Len(store[1].rows) + 1

\* The step ends an operation on facade f; done' tells which and how.
Ends(f) == done'.res # "none" /\ done'.tk.f = f

\* The version the reads of facade f observe after the step.
ViewAfter(f) == GetVersion(wrapper[f])'

\* C4: an operation that returns an error has committed nothing and leaves the
\* version read through the facade as it was before the operation; an operation
\* dropped at a suspension point has installed nothing on the facade and has
\* committed nothing or one version; an operation that succeeds has committed
\* one version, which the reads of the facade observe.
C4_WritesAtomic ==
    [][\A f \in Facades : Ends(f) =>
         LET tk == done'.tk
         IN  /\ done'.res = "err" =>
                  /\ store' = store /\ Len(store) = tk.start
                  /\ ViewAfter(f) = tk.view
             /\ done'.res = "cancelled" =>
                  /\ Len(store') \in {tk.start, tk.start + 1}
                  /\ SubSeq(store', 1, Len(store)) = store
                  /\ wrapper'[f] = wrapper[f]
             /\ done'.res = "ok" =>
                  /\ Len(store') = tk.start + 1
                  /\ ViewAfter(f) = tk.start + 1]_vars

\* C4 as stated: after an operation that returned an error or was dropped, the
\* version read through the facade is the one read before the operation.
C4_AsStated ==
    [][\A f \in Facades : (Ends(f) /\ done'.res \in {"err", "cancelled"}) =>
         ViewAfter(f) = done'.tk.view]_vars

\* A merge_insert on a table of 2 rows has failed after reading its snapshot.
C4_Witness ==
    /\ done.res = "err" /\ done.tk.op = "merge_insert" /\ done.tk.pc = "exec"
    /\ Len(store[done.tk.snap].rows) = 2
    /\ Latest = 2

\* The rows of version v that pass the filter of a scan.
ScannedRows(v, filter) ==
    SelectSeq(store[v].rows, LAMBDA r : \A x \in filter : Eval(x, r))

\* C6: the stream of a query scans the version its read view resolved to when
\* execute_stream was called, and at every moment the rows it has yielded are
\* the first rows of that version (those passing its filter), whatever has been
\* committed since through the same or another facade.
C6_StreamIsolated ==
    /\ [][obs'.kind = "query" =>
            /\ stream'.version = GetVersion(wrapper[obs'.f])
            /\ stream'.yielded = <<>>]_vars
    /\ [](stream.open =>
            IsPrefix(stream.yielded, ScannedRows(stream.version, stream.filter)))
    /\ [][(stream.open /\ stream'.open /\ obs'.kind # "query") =>
            stream'.version = stream.version]_vars

\* A stream on version 1 has yielded both rows of it, polled after an overwrite
\* made through its own facade left the table empty.
C6_Witness ==
    /\ stream.open /\ stream.version = 1 /\ stream.latest > 1
    /\ Len(stream.yielded) = 2 /\ stream.yielded = store[1].rows
    /\ store[stream.latest].rows = <<>>
    /\ wrapper[stream.f].ds = stream.latest

C2_ReadYourWrites ==
    [][\A f \in Facades :
         (obs'.kind \in {"version", "count_rows"} /\ obs'.f = f
             /\ wrapper[f].state = "Latest")
            => obs'.ver >= wrapper[f].acked]_vars

\* Task t is between its first read of the dataset (for add, its write) and the
\* installation of its result.
InFlight(t) == task[t].pc \in {"exec", "install", "run"}

\* C5: no two mutating operations on one facade are in flight at once.
C5_WritersSerialized ==
    \A t, u \in Tasks :
        (t # u /\ InFlight(t) /\ InFlight(u)) => task[t].f # task[u].f

C9_NoLockout ==
    /\ [](\A f \in Facades :
            lock[f] # NoTask => (task[lock[f]].pc = "run" /\ task[lock[f]].f = f))
    /\ \A t \in Tasks : (task[t].pc = "wait") ~> (task[t].pc # "wait")

\* After an operation holding the view failed, the other has acquired it.
C9_Witness ==
    /\ done.res = "none"
    /\ lock["A"] = "t2" /\ task["t2"].pc = "run" /\ task["t2"].op = "compact_files"
    /\ task["t1"].pc = "wait"
    /\ Latest = 3

\* ------------------------------------------------------------------ merge insert

\* MergeInsertBuilder::new: no clause is set.
MergeInsertNew ==
    [when_matched |-> None, when_not_matched |-> FALSE,
     when_not_matched_by_source |-> None]

\* MergeInsertBuilder::when_matched_update: a WhenMatchedBuilder without condition.
WhenMatchedUpdate(b) == [b EXCEPT !.when_matched = Some(None)]
\* WhenMatchedBuilder::only_if, on the builder when_matched_update returned.
OnlyIf(b, condition) == [b EXCEPT !.when_matched = Some(Some(condition))]
\* MergeInsertBuilder::when_not_matched_insert
WhenNotMatchedInsert(b) == [b EXCEPT !.when_not_matched = TRUE]
\* MergeInsertBuilder::when_not_matched_by_source_delete
WhenNotMatchedBySourceDelete(b, filter) ==
    [b EXCEPT !.when_not_matched_by_source = Some(filter)]

\* The builders a caller can make: each clause left out or set.
MatchedClauses(b) ==
    {b, WhenMatchedUpdate(b)} \cup {OnlyIf(WhenMatchedUpdate(b), c) : c \in Conditions}
NotMatchedClauses(b) == {b, WhenNotMatchedInsert(b)}
BySourceClauses(b) ==
    {b} \cup {WhenNotMatchedBySourceDelete(b, f) : f \in {"true", "val = 0"}}
MergeBuilders ==
    UNION {UNION {BySourceClauses(n) : n \in NotMatchedClauses(m)} :
             m \in MatchedClauses(MergeInsertNew)}

\* merge_insert_test_batches(offset, age): ten rows with keys offset..offset+9.
MergeInsertTestBatches(offset, age) == [k \in 1..10 |-> Row(offset + k - 1, age)]

\* The tables the merges start from, and the batches merged into them.
MergeTargets ==
    {<<Row(0, 0), Row(1, 1)>>, <<Row(0, 1), Row(1, 0), Row(2, 0)>>,
     MergeInsertTestBatches(0, 0)}
MergeSources ==
    {<<Row(0, 3), Row(3, 3)>>, <<Row(1, 1), Row(2, 3)>>, MergeInsertTestBatches(5, 3)}

\* The table created with one of the targets, on a facade without interval.
InitMerge ==
    /\ \E rows \in MergeTargets : store = <<Dataset(rows)>>
    /\ clock = 0
    /\ wrapper = [f \in Facades |-> IF f = "A" THEN NewLatest(1, None) ELSE Closed]
    /\ lock = [f \in Facades |-> NoTask]
    /\ task = [t \in Tasks |-> Idle]
    /\ stream = NoStream
    /\ builder = NoBuilder
    /\ obs = NoObs
    /\ done = NoDone
    /\ binding = NoBinding

\* Merges by one caller, each run to its end, and counts in between.
NextMerge ==
    \/ \E params \in MergeBuilders, data \in MergeSources :
         MergeRead("t1", "A", params, data, TRUE)
    \/ \E ok \in BOOLEAN : MergeExecute("t1", ok)
    \/ MergeInstall("t1")
    \/ \E filter \in {None, Some("val = 3")} : CountRows("A", filter, TRUE)

SpecMerge == InitMerge /\ [][NextMerge]_vars

\* The step is the commit of the merge_insert built as params: before it the
\* table holds MergeOld, the batch is MergeNewData, after it the table holds
\* MergeResult.
MergeCommits(params) ==
    /\ task["t1"].op = "merge_insert" /\ task["t1"].pc = "exec"
    /\ task'["t1"].pc = "install"
    /\ task["t1"].arg = params
MergeOld == store[task["t1"].snap].rows
MergeNewData == task["t1"].data
MergeResult == store'[Len(store')].rows
\* The rows of a sequence that pass a test, as an index set and as a sequence.
Indices(rows, Test(_)) == {k \in DOMAIN rows : Test(rows[k])}
\* The step is count_rows(filter) after a merge_insert built as params completed.
CountsAfterMerge(params, filter) ==
    /\ done.res = "ok" /\ done.tk.op = "merge_insert" /\ done.tk.arg = params
    /\ obs'.kind = "count_rows" /\ obs'.arg = filter /\ obs'.f = done.tk.f

\* The builder with only when_not_matched_insert set.
InsertIfNotExists == WhenNotMatchedInsert(MergeInsertNew)

\* C11: a merge_insert with only when_not_matched_insert keeps every row of the
\* table as it is and appends exactly the source rows whose key the table did
\* not hold; the count that follows is the old count plus their number, 15 for
\* target keys 0..9 and source keys 5..14.
C11_InsertIfNotExists ==
    [][/\ MergeCommits(InsertIfNotExists) =>
            /\ SubSeq(MergeResult, 1, Len(MergeOld)) = MergeOld
            /\ SubSeq(MergeResult, Len(MergeOld) + 1, Len(MergeResult))
                 = SelectSeq(MergeNewData, LAMBDA r : r.id \notin Keys(MergeOld))
            /\ (Keys(MergeOld) = 0..9 /\ Len(MergeOld) = 10
                   /\ Keys(MergeNewData) = 5..14 /\ Len(MergeNewData) = 10)
                  => Len(MergeResult) = 15
       /\ CountsAfterMerge(InsertIfNotExists, None) =>
            obs'.val = Len(store[done.tk.snap].rows)
                + Cardinality(Indices(done.tk.data,
                                      LAMBDA r : r.id \notin Keys(store[done.tk.snap].rows)))
      ]_vars

\* The insert-if-not-exists of keys 5..14 into the table of keys 0..9 completed:
\* the table holds 15 rows, the first ten as they were.
C11_Witness ==
    /\ done.res = "ok" /\ done.tk.op = "merge_insert"
    /\ done.tk.arg = InsertIfNotExists
    /\ store[done.tk.snap].rows = MergeInsertTestBatches(0, 0)
    /\ done.tk.data = MergeInsertTestBatches(5, 3)
    /\ Len(store[done.tk.ver].rows) = 15
    /\ wrapper["A"].ds = done.tk.ver

\* The builders with when_matched_update().only_if(c), whatever else is set.
ConditionalUpdates(c) ==
    UNION {BySourceClauses(n) :
             n \in NotMatchedClauses(OnlyIf(WhenMatchedUpdate(MergeInsertNew), c))}

\* C12: in a merge_insert with when_matched_update().only_if(c), a target row
\* whose key matches a source row is replaced by that source row exactly when c
\* holds on the joined row; where c is false the target row stays as it is and
\* the source row is not inserted, whatever the other clauses are.
C12_ConditionalUpdate ==
    [][\A c \in Conditions : \A params \in ConditionalUpdates(c) :
         MergeCommits(params) =>
            \A i \in DOMAIN MergeOld, j \in DOMAIN MergeNewData :
               MergeOld[i].id = MergeNewData[j].id =>
                  LET same == {k \in DOMAIN MergeResult :
                                 MergeResult[k].id = MergeOld[i].id}
                  IN  /\ Cardinality(same) = 1
                      /\ \A k \in same :
                           MergeResult[k] =
                              IF EvalJoined(c, MergeOld[i], MergeNewData[j])
                              THEN MergeNewData[j] ELSE MergeOld[i]]_vars

\* An upsert with only_if("target.val = 0") completed on a table whose row 0 had
\* val 1: the row is there as it was, and the source row of key 3 was inserted.
C12_Witness ==
    /\ done.res = "ok" /\ done.tk.op = "merge_insert"
    /\ done.tk.arg = WhenNotMatchedInsert(OnlyIf(WhenMatchedUpdate(MergeInsertNew),
                                                 "target.val = 0"))
    /\ store[done.tk.snap].rows = <<Row(0, 1), Row(1, 0), Row(2, 0)>>
    /\ done.tk.data = <<Row(0, 3), Row(3, 3)>>
    /\ store[done.tk.ver].rows = <<Row(0, 1), Row(1, 0), Row(2, 0), Row(3, 3)>>

\* The rows of a table that carry a key.
WithKey(rows, key) == {k \in DOMAIN rows : rows[k].id = key}

\* C13: a merge_insert acts on each category by its clause alone. A target row
\* whose key is in no source row is deleted exactly when
\* when_not_matched_by_source_delete(f) is set and f holds on it; without
\* when_matched a matched target row stays as it is; without when_not_matched no
\* source row of a new key is inserted, and with it every such row is; so a
\* merge with only when_matched_update whose keys match nothing changes nothing.
C13_PerCategory ==
    [][\A params \in MergeBuilders :
         MergeCommits(params) =>
            /\ \A i \in DOMAIN MergeOld :
                  MergeOld[i].id \notin Keys(MergeNewData) =>
                     IF \E f \in params.when_not_matched_by_source : Eval(f, MergeOld[i])
                     THEN WithKey(MergeResult, MergeOld[i].id) = {}
                     ELSE \E k \in DOMAIN MergeResult :
                             /\ WithKey(MergeResult, MergeOld[i].id) = {k}
                             /\ MergeResult[k] = MergeOld[i]
            /\ params.when_matched = None =>
                  \A i \in DOMAIN MergeOld :
                     MergeOld[i].id \in Keys(MergeNewData) =>
                        \E k \in DOMAIN MergeResult :
                           /\ WithKey(MergeResult, MergeOld[i].id) = {k}
                           /\ MergeResult[k] = MergeOld[i]
            /\ \A j \in DOMAIN MergeNewData :
                  MergeNewData[j].id \notin Keys(MergeOld) =>
                     IF params.when_not_matched
                     THEN \E k \in DOMAIN MergeResult :
                             /\ WithKey(MergeResult, MergeNewData[j].id) = {k}
                             /\ MergeResult[k] = MergeNewData[j]
                     ELSE WithKey(MergeResult, MergeNewData[j].id) = {}
            /\ (params = WhenMatchedUpdate(MergeInsertNew)
                   /\ Keys(MergeOld) \cap Keys(MergeNewData) = {})
                  => MergeResult = MergeOld]_vars

\* A merge with only when_not_matched_by_source_delete("val = 0") completed: the
\* two rows in no source row, which have val 0, are gone, the matched row stays
\* as it was, and the source row of the new key was not inserted.
C13_Witness ==
    /\ done.res = "ok" /\ done.tk.op = "merge_insert"
    /\ done.tk.arg = WhenNotMatchedBySourceDelete(MergeInsertNew, "val = 0")
    /\ store[done.tk.snap].rows = <<Row(0, 1), Row(1, 0), Row(2, 0)>>
    /\ done.tk.data = <<Row(0, 3), Row(3, 3)>>
    /\ store[done.tk.ver].rows = <<Row(0, 1)>>

\* Scenario S6: the builder with only when_matched_update().only_if("target.val = 0").
ConditionalMergeInsert == OnlyIf(WhenMatchedUpdate(MergeInsertNew), "target.val = 0")

\* The step is count_rows(filter) after the merge of scenario S6 completed: the
\* batch (5,3)..(14,3) merged into the ten rows (0,0)..(9,0).
CountsAfterScenario(filter) ==
    /\ CountsAfterMerge(ConditionalMergeInsert, filter)
    /\ store[done.tk.snap].rows = MergeInsertTestBatches(0, 0)
    /\ done.tk.data = MergeInsertTestBatches(5, 3)

\* C14: after scenario S6 the table holds 10 rows, the rows of keys 10..14 not
\* being inserted, and exactly 5 of them have val = 3.
C14_ConditionalMergeInsert ==
    [][/\ CountsAfterScenario(None) => obs'.val = 10
       /\ CountsAfterScenario(Some("val = 3")) => obs'.val = 5]_vars

\* C14 as stated: the table holds 15 rows, 5 of them with val = 3.
C14_AsStated ==
    [][/\ CountsAfterScenario(None) => obs'.val = 15
       /\ CountsAfterScenario(Some("val = 3")) => obs'.val = 5]_vars

\* The merge of scenario S6 completed and its version is the one the facade reads.
C14_Witness ==
    /\ done.res = "ok" /\ done.tk.op = "merge_insert"
    /\ done.tk.arg = ConditionalMergeInsert
    /\ store[done.tk.snap].rows = MergeInsertTestBatches(0, 0)
    /\ done.tk.data = MergeInsertTestBatches(5, 3)
    /\ Cardinality(Indices(store[done.tk.ver].rows, LAMBDA r : r.val = 3)) = 5
    /\ wrapper["A"].ds = done.tk.ver

\* ------------------------------------------------------------------ update

\* The table of test_update_with_predicate: ids 0..9, each with a value of its own.
UpdateTestBatch == [k \in 1..10 |-> Row(k - 1, 10 + k - 1)]

\* The tables updated, the predicates and the lists of (column, value) given;
\* "id >>" is not SQL and "nope" is not a column.
UpdateTargets == {<<Row(0, 0)>>, <<Row(1, 1), Row(0, 0)>>, UpdateTestBatch}
UpdateFilters == {None, Some("id > 5"), Some("val = 0"), Some("id >>")}
UpdateLists ==
    {<<<<"val", 1>>>>, <<<<"id", 7>>>>, <<<<"val", 1>>, <<"id", 7>>>>, <<<<"nope", 1>>>>}

InitUpdate ==
    /\ \E rows \in UpdateTargets : store = <<Dataset(rows)>>
    /\ clock = 0
    /\ \E i \in {None, Some(0)} :
         wrapper = [f \in Facades |-> IF f = "A" THEN NewLatest(1, i) ELSE Closed]
    /\ lock = [f \in Facades |-> NoTask]
    /\ task = [t \in Tasks |-> Idle]
    /\ stream = NoStream
    /\ builder = NoBuilder
    /\ obs = NoObs
    /\ done = NoDone
    /\ binding = NoBinding

\* Updates by one caller, each run to its end, and counts in between.
NextUpdate ==
    \/ \E predicate \in UpdateFilters, updates \in UpdateLists, ok \in BOOLEAN :
         UpdateRead("t1", "A", predicate, updates, ok)
    \/ \E ok \in BOOLEAN : UpdateExecute("t1", ok)
    \/ UpdateInstall("t1")
    \/ \E filter \in {None, Some("val = 0")}, ok \in BOOLEAN : CountRows("A", filter, ok)

SpecUpdate == InitUpdate /\ [][NextUpdate]_vars

\* The step is the commit of an update: before it the table holds UpdateOld,
\* after it UpdateResult.
UpdateCommits ==
    /\ task["t1"].op = "update" /\ task["t1"].pc = "exec"
    /\ task'["t1"].pc = "install"
UpdateOld == store[task["t1"].snap].rows
UpdateResult == store'[Len(store')].rows
\* The columns a list of updates assigns, and the value it assigns to one.
Assigned(updates) == {updates[k][1] : k \in DOMAIN updates}
ValueOf(updates, column) ==
    updates[CHOOSE k \in DOMAIN updates : updates[k][1] = column][2]

\* C15: an update keeps the number of rows (a row is followed by its place in
\* the table); on each row the
\* predicate selects (each row, without predicate) every assigned column has the
\* value given and every other column is as before; every other row is as
\* before. With ids 0..9 and update(Some("id > 5"), val := 1), ids 0..5 keep
\* their values and ids 6..9 have 1.
C15_UpdateFrame ==
    [][UpdateCommits =>
         LET predicate == task["t1"].arg.predicate
             updates == task["t1"].arg.updates
         IN  /\ Len(UpdateResult) = Len(UpdateOld)
             /\ \A k \in DOMAIN UpdateOld :
                   IF predicate = None \/ Eval(Unwrap(predicate), UpdateOld[k])
                   THEN \A c \in Columns :
                           UpdateResult[k][c] =
                              IF c \in Assigned(updates) THEN ValueOf(updates, c)
                              ELSE UpdateOld[k][c]
                   ELSE UpdateResult[k] = UpdateOld[k]
             /\ (UpdateOld = UpdateTestBatch /\ predicate = Some("id > 5")
                    /\ updates = <<<<"val", 1>>>>)
                   => UpdateResult = [k \in 1..10 |->
                                        Row(k - 1, IF k - 1 > 5 THEN 1 ELSE 10 + k - 1)]
      ]_vars

\* update(Some("id > 5"), val := 1) completed on the table of ids 0..9: the rows
\* of ids 6..9 have val 1, and the facade counts ten rows.
C15_Witness ==
    /\ done.res = "ok" /\ done.tk.op = "update"
    /\ done.tk.arg = [predicate |-> Some("id > 5"), updates |-> <<<<"val", 1>>>>]
    /\ store[done.tk.snap].rows = UpdateTestBatch
    /\ Len(store[done.tk.ver].rows) = 10
    /\ store[done.tk.ver].rows[6] = Row(5, 15)
    /\ store[done.tk.ver].rows[7] = Row(6, 1)
    /\ wrapper["A"].ds = done.tk.ver

\* ------------------------------------------------------------------ filters

\* The filters given to count_rows and to query().filter(); "id >>" is not SQL.
QueryFilters == {Some("id >= 1"), Some("val = 0"), Some("id >>")}

\* Counts and queries with the same filters on the facade of the table, the
\* stream of the last query being polled, while appends change the table.
NextFilter ==
    \/ \E data \in Streams : AddNew("t1", "A", data)
    \/ \E ok \in BOOLEAN : AddWrite(ok)
    \/ AddInstall("t1")
    \/ \E filter \in QueryFilters, ok \in BOOLEAN : Query("A", filter, ok)
    \/ StreamNext
    \/ \E filter \in QueryFilters, ok \in BOOLEAN : CountRows("A", filter, ok)

SpecFilter == Init /\ [][NextFilter]_vars

\* C16: count_rows(Some(f)) and query().filter(f) agree. A count_rows(Some(f))
\* called right after a query with filter f returned its stream succeeds and
\* returns the number of rows of the stream; and a query with filter f called
\* right after count_rows(Some(f)) failed on f does not return a stream.
C16_FilterAgreement ==
    [][/\ (obs.kind = "query" /\ obs.arg # None
              /\ obs'.f = obs.f /\ obs'.arg = obs.arg
              /\ obs'.kind \in {"count_rows", "error"})
             => (obs'.kind = "count_rows" /\ obs'.val = Len(StreamSource(stream)))
       /\ (obs.kind = "error" /\ obs.arg # None
              /\ obs'.f = obs.f /\ obs'.arg = obs.arg)
             => obs'.kind # "query"]_vars

\* ------------------------------------------------------------------ vector queries

\* utils.rs: default_vector_column(schema, dim): the one column that is a fixed
\* size list of floating items (of dimension dim, when given); None stands for
\* the error returned when there is no such column or more than one.
DefaultVectorColumn(schema, dim) ==
    LET candidates == {k \in DOMAIN schema :
                         /\ schema[k].type.kind = "FixedSizeList"
                         /\ IsFloating(schema[k].type.item)
                         /\ \A d \in dim : schema[k].type.dim = d}
    IN  IF Cardinality(candidates) = 1
        THEN Some(schema[CHOOSE k \in candidates : TRUE].name)
        ELSE None

\* A faulty check, which accepts a vector column of any dimension.
MatchesQueryVectorAnyDim(type, dim) ==
    type.kind = "FixedSizeList" /\ IsFloating(type.item)

\* matches!(field.data_type(), FixedSizeList(f, dim)
\*          if f.data_type().is_floating() && dim == query_vector.len())
MatchesQueryVector(type, dim) ==
    type.kind = "FixedSizeList" /\ IsFloating(type.item) /\ type.dim = dim

\* The column a query with vector q runs on: the column given or the one
\* inferred; None stands for Error::Store.
QueryColumn(schema, column, q) ==
    LET col == IF column # None THEN column ELSE DefaultVectorColumn(schema, Some(Len(q)))
    IN  IF col = None THEN None
        ELSE IF Unwrap(col) \notin FieldNames(schema) THEN None
        ELSE IF ~MatchesQueryVector(FieldOf(schema, Unwrap(col)).type, Len(q)) THEN None
        ELSE col

\* NativeTable::query with a query vector: query is the Query built by
\* nearest_to(q), column(), limit(), filter() and prefilter(). What it returns
\* is a stream ("ok"), the error of the storage ("Lance") or Error::Store.
VectorQuery(f, query, ok) ==
    /\ IsOpen(f)
    /\ IF NeedsRefresh(wrapper[f]) /\ ~ok
       THEN /\ obs' = Observed("error", f, query, 0, "Lance")
            /\ UNCHANGED <<wrapper, stream>>
       ELSE LET v == GetVersion(wrapper[f])
                col == QueryColumn(store[v].schema, query.column, query.query_vector)
            IN  /\ wrapper' = [wrapper EXCEPT ![f] = AfterGet(@)]
                /\ IF col = None
                   THEN /\ obs' = Observed("error", f, query, 0, "Store")
                        /\ UNCHANGED stream
                   ELSE /\ stream' =
                             [open |-> TRUE, f |-> f, version |-> v,
                              filter |-> ScanFilter(query.filter), yielded |-> <<>>,
                              latest |-> Latest,
                              nearest |->
                                 [column |-> Unwrap(col), q |-> query.query_vector,
                                  k |-> IF query.limit = None THEN DEFAULT_TOP_K
                                        ELSE Unwrap(query.limit),
                                  prefilter |-> query.prefilter]]
                        /\ obs' = Observed("query", f, query, v, "ok")
    /\ done' = NoDone
    /\ UNCHANGED <<store, clock, lock, task, builder, binding>>

\* The schemas of the tables queried: one vector column; two of one dimension;
\* two of different dimensions; none; a fixed size list of integers.
VectorField == Field("vector", FixedSizeList("Float32", 2))
Scalars == <<Field("id", Int32), Field("val", Int32)>>
VectorSchemas ==
    {Scalars \o <<VectorField>>,
     Scalars \o <<VectorField, Field("vector2", FixedSizeList("Float64", 2))>>,
     Scalars \o <<VectorField, Field("wide", FixedSizeList("Float32", 3))>>,
     Scalars,
     Scalars \o <<Field("codes", FixedSizeList("Int32", 2))>>}

\* The five rows of a table of the schema: row k holds, in each column, the
\* value of that column at k.
Vectors == <<<<0, 0>>, <<1, 0>>, <<2, 2>>, <<0, 1>>, <<3, 3>>>>
ValueAt(column, k) ==
    CASE column = "id" -> k - 1
      [] column = "val" -> (k - 1) % 2
      [] column = "vector" -> Vectors[k]
      [] column = "vector2" -> Vectors[6 - k]
      [] column = "wide" -> Vectors[k] \o <<k>>
      [] OTHER -> <<k, k>>
RowsFor(schema) == [k \in 1..5 |-> [c \in FieldNames(schema) |-> ValueAt(c, k)]]

\* The queries made: the query vector, the column, the limit, the filter and
\* prefilter as the builder holds them.
Queries ==
    [query_vector : {<<0, 0>>, <<1, 1, 1>>},
     column : {None, Some("vector"), Some("vector2"), Some("id"), Some("codes"),
               Some("nope")},
     limit : {None, Some(2)},
     filter : {None, Some("val = 0")},
     prefilter : BOOLEAN]

InitVector ==
    /\ \E schema \in VectorSchemas : store = <<DatasetWithSchema(RowsFor(schema), schema)>>
    /\ clock = 0
    /\ wrapper = [f \in Facades |-> IF f = "A" THEN NewLatest(1, None) ELSE Closed]
    /\ lock = [f \in Facades |-> NoTask]
    /\ task = [t \in Tasks |-> Idle]
    /\ stream = NoStream
    /\ builder = NoBuilder
    /\ obs = NoObs
    /\ done = NoDone
    /\ binding = NoBinding

\* Queries with a query vector on the facade of the table and the polling of
\* their stream.
NextVector ==
    \/ \E query \in Queries : VectorQuery("A", query, TRUE)
    \/ StreamNext

SpecVector == InitVector /\ [][NextVector]_vars

\* Whether a column of the schema is a fixed size list of floating items of
\* dimension dim.
IsVectorColumn(schema, name, dim) ==
    \E k \in DOMAIN schema :
       /\ schema[k].name = name
       /\ schema[k].type.kind = "FixedSizeList"
       /\ schema[k].type.item \in {"Float16", "Float32", "Float64"}
       /\ schema[k].type.dim = dim

\* C17: a query with a query vector q returns a stream only when its column
\* resolves to a fixed size list of floating items of dimension |q|: the column
\* given, when it is one; without a column, the only such column of the schema.
\* When the column does not resolve, the query that reaches the scanner fails
\* with Store; when it resolves, it returns the stream on that column.
C17_VectorColumn ==
    [][(obs'.kind \in {"query", "error"} /\ obs'.val # "Lance") =>
          LET query == obs'.arg
              schema == store[GetVersion(wrapper["A"])].schema
              dim == Len(query.query_vector)
              vectors == {n \in FieldNames(schema) : IsVectorColumn(schema, n, dim)}
              resolves == IF query.column # None
                          THEN Unwrap(query.column) \in vectors
                          ELSE Cardinality(vectors) = 1
          IN  /\ obs'.kind = "query" <=> resolves
              /\ obs'.kind = "error" => obs'.val = "Store"
              /\ obs'.kind = "query" =>
                    /\ stream'.nearest.column \in vectors
                    /\ \A c \in query.column : stream'.nearest.column = c]_vars

\* A query of dimension 3 without column has returned a stream on the column
\* "wide" of a schema that also has a vector column of dimension 2.
C17_Witness ==
    /\ obs.kind = "query" /\ obs.arg.column = None
    /\ Len(obs.arg.query_vector) = 3
    /\ stream.open /\ stream.nearest.column = "wide"
    /\ "vector" \in FieldNames(store[obs.ver].schema)

\* The smaller of two numbers.
Min(a, b) == IF a <= b THEN a ELSE b

Isqrt(n) == CHOOSE r \in 0..n : r * r <= n /\ n < (r + 1) * (r + 1)

\* A faulty suggestion, which does not raise the square root to 1.
SuggestedNumPartitionsUnraised(rows) == Isqrt(rows)

\* index.rs: suggested_num_partitions(rows)
SuggestedNumPartitions(rows) == Max(1, Isqrt(rows))

\* A faulty inference, which never falls back to dim / 8.
SuggestedNumSubVectorsBy16(dim) == IF dim % 16 = 0 THEN dim \div 16 ELSE 1

\* A faulty inference, which divides by 8 whenever it can.
SuggestedNumSubVectorsBy8(dim) == IF dim % 8 = 0 THEN dim \div 8 ELSE 1

\* index.rs: suggested_num_sub_vectors(dim)
SuggestedNumSubVectors(dim) ==
    IF dim % 16 = 0 THEN dim \div 16
    ELSE IF dim % 8 = 0 THEN dim \div 8
    ELSE 1

\* IndexBuilder::new: no column, replace = true.
IndexNew == [columns |-> None, replace |-> TRUE]
\* IndexBuilder::replace
IndexReplace(b, v) == [b EXCEPT !.replace = v]

\* IvfPqIndexBuilder as create_index().vector().ivf_pq() makes it: the common
\* builder, no num_partitions, no num_sub_vectors.
IvfPqOf(common) ==
    [columns |-> common.columns, replace |-> common.replace,
     num_partitions |-> None, num_sub_vectors |-> None]
IvfPqNew == IvfPqOf(IndexNew)
\* IndexBuilder::column
IndexColumn(b, column) == [b EXCEPT !.columns = Some(<<column>>)]
\* IvfPqIndexBuilder::num_partitions
IndexNumPartitions(b, n) == [b EXCEPT !.num_partitions = Some(n)]
\* IvfPqIndexBuilder::num_sub_vectors
IndexNumSubVectors(b, n) == [b EXCEPT !.num_sub_vectors = Some(n)]

\* A faulty inference, which takes the first vector column when there are several.
InferredColumnFirst(schema) ==
    LET vector_fields == {k \in DOMAIN schema :
                            /\ schema[k].type.kind = "FixedSizeList"
                            /\ IsFloating(schema[k].type.item)}
    IN  IF vector_fields = {} THEN None
        ELSE Some(schema[CHOOSE k \in vector_fields : \A j \in vector_fields : k <= j].name)

\* create_ivf_pq_index without column: the fields that are fixed size lists of
\* floating items; None stands for Error::Schema (none, or more than one).
InferredColumn(schema) ==
    LET vector_fields == {k \in DOMAIN schema :
                            /\ schema[k].type.kind = "FixedSizeList"
                            /\ IsFloating(schema[k].type.item)}
    IN  IF Cardinality(vector_fields) = 1
        THEN Some(schema[CHOOSE k \in vector_fields : TRUE].name)
        ELSE None

\* The error of the column step of create_ivf_pq_index, "none" when there is
\* none: Schema for several columns and for a failed inference, Arrow for a column
\* that is not in the schema.
IvfPqColumnError(schema, index) ==
    IF index.columns # None /\ Len(Unwrap(index.columns)) # 1 THEN "Schema"
    ELSE IF index.columns # None /\ Unwrap(index.columns)[1] \notin FieldNames(schema)
    THEN "Arrow"
    ELSE IF index.columns = None /\ InferredColumn(schema) = None THEN "Schema"
    ELSE "none"

\* The column the index is built on: the caller's, or the inferred one.
IvfPqColumn(schema, index) ==
    IF index.columns # None THEN Unwrap(index.columns)[1]
    ELSE Unwrap(InferredColumn(schema))

\* Without num_sub_vectors, a column that is no fixed size list is Error::Schema.
IvfPqSubVectorsError(schema, index) ==
    IF index.num_sub_vectors = None
          /\ FieldOf(schema, IvfPqColumn(schema, index)).type.kind # "FixedSizeList"
    THEN "Schema"
    ELSE "none"

\* The column, num_partitions and num_sub_vectors the index is trained with.
IvfPqParams(ds, index) ==
    LET column == IvfPqColumn(ds.schema, index)
    IN  [index |-> index,
         column |-> column,
         num_partitions |-> IF index.num_partitions # None THEN Unwrap(index.num_partitions)
                            ELSE SuggestedNumPartitions(Len(ds.rows)),
         num_sub_vectors |-> IF index.num_sub_vectors # None
                             THEN Unwrap(index.num_sub_vectors)
                             ELSE SuggestedNumSubVectors(FieldOf(ds.schema, column).type.dim)]

\* NativeTable::create_ivf_pq_index, up to self.dataset.get_mut(): the schema is
\* read (ok: its refresh succeeds), the column is settled, the rows are counted
\* when num_partitions is not given (ok2: the refresh of that read succeeds), and
\* num_sub_vectors is settled.
IvfPqExecute(t, f, index, ok, ok2) ==
    /\ IsOpen(f)
    /\ LET v == GetVersion(wrapper[f])
           schema == store[v].schema
           tk == Begin(f, "create_ivf_pq_index", [index |-> index], <<>>)
       IN  IF NeedsRefresh(wrapper[f]) /\ ~ok
           THEN Finish(t, tk, "err") /\ UNCHANGED wrapper
           ELSE /\ wrapper' = [wrapper EXCEPT ![f] = AfterGet(@)]
                /\ IF IvfPqColumnError(schema, index) # "none"
                   THEN Finish(t, tk, IvfPqColumnError(schema, index))
                   ELSE IF index.num_partitions = None
                             /\ NeedsRefresh(AfterGet(wrapper[f])) /\ ~ok2
                   THEN Finish(t, tk, "err")
                   ELSE IF IvfPqSubVectorsError(schema, index) # "none"
                   THEN Finish(t, tk, IvfPqSubVectorsError(schema, index))
                   ELSE /\ task' = [task EXCEPT ![t] =
                                      [tk EXCEPT !.pc = "wait",
                                                 !.arg = IvfPqParams(store[v], index)]]
                        /\ done' = NoDone
    /\ obs' = NoObs
    /\ UNCHANGED <<store, clock, lock, stream, builder, binding>>

\* A caller with nothing in flight executes the builder.
IvfPqStart(t, f, index, ok, ok2) ==
    /\ task[t].op = "idle"
    /\ IvfPqExecute(t, f, index, ok, ok2)

\* The dimensions of the vector columns indexed.
IndexDims == {1, 2, 8, 12, 16, 17, 24, 32, 48, 64, 128}

\* The schemas of the tables indexed: one vector column of each dimension; none;
\* two vector columns; a vector column beside a fixed size list of integers.
IndexSchemas ==
    {Scalars \o <<Field("vector", FixedSizeList("Float32", d))>> : d \in IndexDims}
      \cup {Scalars,
            Scalars \o <<Field("vector", FixedSizeList("Float32", 16)),
                         Field("vector2", FixedSizeList("Float64", 8))>>,
            Scalars \o <<Field("codes", FixedSizeList("Int32", 16)),
                         Field("vector", FixedSizeList("Float16", 8))>>}

\* The builders executed.
IndexBuilders ==
    {IvfPqNew, IndexNumSubVectors(IvfPqNew, 4), IndexNumPartitions(IvfPqNew, 2),
     IndexColumn(IvfPqNew, "vector"), IndexColumn(IvfPqNew, "vector2"),
     IndexColumn(IvfPqNew, "id"), IndexColumn(IvfPqNew, "nope"),
     IndexNumSubVectors(IndexColumn(IvfPqNew, "id"), 4)}

\* The table created with a schema, empty or with ten rows (of which the model
\* keeps the scalar columns: the vectors are not read), on a facade without
\* interval or with interval 0.
InitIndex ==
    /\ \E schema \in IndexSchemas, rows \in {<<>>, MergeInsertTestBatches(0, 0)} :
         store = <<DatasetWithSchema(rows, schema)>>
    /\ clock = 0
    /\ \E i \in {None, Some(0)} :
         wrapper = [f \in Facades |-> IF f = "A" THEN NewLatest(1, i) ELSE Closed]
    /\ lock = [f \in Facades |-> NoTask]
    /\ task = [t \in Tasks |-> Idle]
    /\ stream = NoStream
    /\ builder = NoBuilder
    /\ obs = NoObs
    /\ done = NoDone
    /\ binding = NoBinding

\* Index builds by one caller, each run to its end, and reads of the version.
NextIndex ==
    \/ \E index \in IndexBuilders, ok \in BOOLEAN, ok2 \in BOOLEAN :
         IvfPqStart("t1", "A", index, ok, ok2)
    \/ \E ok \in BOOLEAN : MutAcquire("t1", ok)
    \/ \E ok \in BOOLEAN : MutFinish("t1", ok)
    \/ \E ok \in BOOLEAN : Version("A", ok)

SpecIndex == InitIndex /\ [][NextIndex]_vars

\* The columns of a schema that are fixed size lists of floating items.
VectorColumns(schema) ==
    {schema[k].name : k \in {j \in DOMAIN schema :
                               /\ schema[j].type.kind = "FixedSizeList"
                               /\ schema[j].type.item \in {"Float16", "Float32", "Float64"}}}

\* The schema create_ivf_pq_index reads, and the dataset after the step.
IndexSchema == store[GetVersion(wrapper["A"])].schema
IndexResult == store'[Len(store')]

\* The step is the first of a create_ivf_pq_index that returns at once / goes on.
IvfPqFails ==
    /\ task["t1"].op = "idle"
    /\ done'.tk.op = "create_ivf_pq_index"
IvfPqGoesOn ==
    /\ task["t1"].op = "idle"
    /\ task'["t1"].op = "create_ivf_pq_index"
\* The step is the return of the create_index of a create_ivf_pq_index.
IvfPqReturns ==
    /\ task["t1"].pc = "run"
    /\ done'.tk.op = "create_ivf_pq_index"

\* C19: create_index().vector().ivf_pq().execute() without column(...): with
\* exactly one fixed size list column of floating items the call never fails with
\* Schema, goes on to train the index on that column and, when it returns Ok, the
\* new version has the index on that column; with none or more than one it returns
\* at once, with Schema (or with the error of the storage when the schema could not
\* be read). A call that does not return Ok leaves the versions as they are: no
\* index is created and no version is committed.
C19_IndexInference ==
    [][/\ (IvfPqFails /\ done'.tk.arg.index.columns = None)
            => /\ done'.res \in {"Schema", "err"}
               /\ done'.res = "Schema" => Cardinality(VectorColumns(IndexSchema)) # 1
       /\ (IvfPqGoesOn /\ task'["t1"].arg.index.columns = None)
            => VectorColumns(IndexSchema) = {task'["t1"].arg.column}
       /\ (task["t1"].op = "idle" /\ Cardinality(VectorColumns(IndexSchema)) # 1)
            => ~(IvfPqGoesOn /\ task'["t1"].arg.index.columns = None)
       /\ (IvfPqReturns /\ done'.tk.arg.index.columns = None /\ done'.res = "ok")
            => /\ Len(store') = Len(store) + 1
               /\ \E i \in IndexResult.indices :
                    VectorColumns(IndexResult.schema) = {i.column}
       /\ ((IvfPqFails \/ IvfPqReturns) /\ done'.res # "ok") => store' = store
      ]_vars

\* The call without column returned Ok on the table whose schema has a fixed size
\* list of integers beside its one vector column, and the index is on the latter.
C19_Witness ==
    /\ done.res = "ok"
    /\ done.tk.op = "create_ivf_pq_index"
    /\ done.tk.arg.index = IvfPqNew
    /\ "codes" \in FieldNames(store[Latest].schema)
    /\ \E i \in store[Latest].indices : i.column = "vector"
    /\ Latest = 2

\* The dimension of the column a create_ivf_pq_index trains on.
TrainedDim(tk) == FieldOf(store[Latest].schema, tk.arg.column).type.dim

\* C20: the num_sub_vectors the index is trained with is the caller's value when
\* num_sub_vectors(n) was called; otherwise it is dim / 16 when 16 divides the
\* dimension dim of the column, else dim / 8 when 8 divides it, else 1: it is at
\* least 1 and, unless it is the fallback 1, it divides dim. The index of a call
\* that returns Ok has this num_sub_vectors.
C20_NumSubVectors ==
    [][/\ IvfPqGoesOn =>
            \A tk \in {task'["t1"]} :
               IF tk.arg.index.num_sub_vectors # None
               THEN tk.arg.num_sub_vectors = Unwrap(tk.arg.index.num_sub_vectors)
               ELSE \A dim \in {TrainedDim(tk)} :
                      /\ tk.arg.num_sub_vectors =
                           (IF dim % 16 = 0 THEN dim \div 16
                            ELSE IF dim % 8 = 0 THEN dim \div 8 ELSE 1)
                      /\ dim >= 1 =>
                           /\ tk.arg.num_sub_vectors >= 1
                           /\ (dim % 16 = 0 \/ dim % 8 = 0)
                                => dim % tk.arg.num_sub_vectors = 0
       /\ (IvfPqReturns /\ done'.res = "ok")
            => \E i \in IndexResult.indices :
                 /\ i.column = done'.tk.arg.column
                 /\ i.num_sub_vectors = task["t1"].arg.num_sub_vectors
      ]_vars

\* The call without num_sub_vectors returned Ok on the table whose vector column
\* has dimension 24, and the index has 3 sub vectors.
C20_Witness ==
    /\ done.res = "ok"
    /\ done.tk.op = "create_ivf_pq_index"
    /\ done.tk.arg.index.num_sub_vectors = None
    /\ TrainedDim(done.tk) = 24
    /\ \E i \in store[Latest].indices : i.num_sub_vectors = 3

\* The num_sub_vectors chosen for the dimensions 128, 64, 24 and 17, with the
\* value for 64 left open.
DefaultsWith(for64) ==
    \A tk \in {task'["t1"]} :
       (IvfPqGoesOn /\ tk.arg.index.num_sub_vectors = None)
         => /\ TrainedDim(tk) = 128 => tk.arg.num_sub_vectors = 8
            /\ TrainedDim(tk) = 64 => tk.arg.num_sub_vectors = for64
            /\ TrainedDim(tk) = 24 => tk.arg.num_sub_vectors = 3
            /\ TrainedDim(tk) = 17 => tk.arg.num_sub_vectors = 1

\* C21: the default num_sub_vectors chosen for vector dimensions 128, 64, 24 and
\* 17 is 8, 4, 3 and 1 respectively (16 divides 64, so that 64 / 16 is chosen).
C21_Defaults == [][DefaultsWith(4)]_vars

\* C21 as stated: the default for dimension 64 is 8.
C21_AsStated == [][DefaultsWith(8)]_vars

\* The call without num_sub_vectors returned Ok on the table whose vector column
\* has dimension 64, and the index has 4 sub vectors.
C21_Witness ==
    /\ done.res = "ok"
    /\ done.tk.op = "create_ivf_pq_index"
    /\ done.tk.arg.index.num_sub_vectors = None
    /\ TrainedDim(done.tk) = 64
    /\ \E i \in store[Latest].indices : i.num_sub_vectors = 4

\* ------------------------------------------------------------------ partitions

\* The row counts of the tables indexed: around the squares 1, 4, 9 and 16.
PartitionRows == {0, 1, 2, 3, 4, 8, 9, 15, 16}

\* A table of n rows.
TableOf(n) == [k \in 1..n |-> Row(k - 1, 0)]

\* The builders executed: with and without num_partitions.
PartitionBuilders ==
    {IvfPqNew, IndexNumPartitions(IvfPqNew, 2), IndexNumPartitions(IvfPqNew, 7),
     IndexNumPartitions(IndexNumSubVectors(IvfPqNew, 4), 0)}

\* A table with one vector column of dimension 16 and n rows.
InitPartitions ==
    /\ \E n \in PartitionRows :
         store = <<DatasetWithSchema(TableOf(n),
                                     Scalars \o <<Field("vector", FixedSizeList("Float32", 16))>>)>>
    /\ clock = 0
    /\ wrapper = [f \in Facades |-> IF f = "A" THEN NewLatest(1, None) ELSE Closed]
    /\ lock = [f \in Facades |-> NoTask]
    /\ task = [t \in Tasks |-> Idle]
    /\ stream = NoStream
    /\ builder = NoBuilder
    /\ obs = NoObs
    /\ done = NoDone
    /\ binding = NoBinding

\* One caller builds indices while another adds a row to the table.
NextPartitions ==
    \/ \E index \in PartitionBuilders : IvfPqStart("t1", "A", index, TRUE, TRUE)
    \/ \E ok \in BOOLEAN : MutAcquire("t1", ok)
    \/ \E ok \in BOOLEAN : MutFinish("t1", ok)
    \/ AddNew("t2", "A", <<Row(100, 0)>>)
    \/ \E ok \in BOOLEAN : AddWrite(ok)
    \/ AddInstall("t2")

SpecPartitions == InitPartitions /\ [][NextPartitions]_vars

\* floor(sqrt(n)) raised to 1, stated by its bounds.
IsRaisedRoot(p, n) ==
    /\ n = 0 => p = 1
    /\ n >= 1 => p * p <= n /\ n < (p + 1) * (p + 1)

\* The num_partitions of a build are those of the builder when it has some, and
\* otherwise the raised root of n.
PartitionsFor(tk, n) ==
    IF tk.arg.index.num_partitions # None
    THEN tk.arg.num_partitions = Unwrap(tk.arg.index.num_partitions)
    ELSE IsRaisedRoot(tk.arg.num_partitions, n)

Primitive(kind) == [kind |-> kind]

\* DataType::is_integer and DataType::is_floating
IntegerKinds == {"Int8", "Int16", "Int32", "Int64", "UInt8", "UInt16", "UInt32", "UInt64"}
FloatingKinds == {"Float16", "Float32", "Float64"}

\* A faulty test, which takes LargeUtf8 for a string it can index.
SupportedBtreeDataTypeLarge(dtype) ==
    \/ dtype.kind \in IntegerKinds
    \/ dtype.kind \in FloatingKinds
    \/ dtype.kind \in {"Boolean", "Utf8", "LargeUtf8", "Time32", "Time64", "Date32", "Date64",
                       "Timestamp"}

\* NativeTable::supported_btree_data_type
SupportedBtreeDataType(dtype) ==
    \/ dtype.kind \in IntegerKinds
    \/ dtype.kind \in FloatingKinds
    \/ dtype.kind \in {"Boolean", "Utf8", "Time32", "Time64", "Date32", "Date64", "Timestamp"}

\* BTreeIndexBuilder as create_index().scalar().btree() makes it.
BTreeOf(common) == common

\* The error create_btree_index returns before it asks for the mutation view,
\* "none" when there is none.
BTreeError(schema, index) ==
    IF index.columns = None THEN "InvalidInput"
    ELSE IF Len(Unwrap(index.columns)) # 1 THEN "Schema"
    ELSE IF Unwrap(index.columns)[1] \notin FieldNames(schema) THEN "Arrow"
    ELSE IF ~SupportedBtreeDataType(FieldOf(schema, Unwrap(index.columns)[1]).type)
    THEN "Schema"
    ELSE "none"

\* NativeTable::create_btree_index, up to self.dataset.get_mut(): the schema is
\* read (ok: its refresh succeeds) and the column is checked.
BTreeExecute(t, f, index, ok) ==
    /\ IsOpen(f)
    /\ LET schema == store[GetVersion(wrapper[f])].schema
           tk == Begin(f, "create_btree_index", [index |-> index], <<>>)
       IN  IF NeedsRefresh(wrapper[f]) /\ ~ok
           THEN Finish(t, tk, "err") /\ UNCHANGED wrapper
           ELSE /\ wrapper' = [wrapper EXCEPT ![f] = AfterGet(@)]
                /\ IF BTreeError(schema, index) # "none"
                   THEN Finish(t, tk, BTreeError(schema, index))
                   ELSE /\ task' = [task EXCEPT ![t] =
                                      [tk EXCEPT !.pc = "wait",
                                                 !.arg = [index |-> index,
                                                          column |-> Unwrap(index.columns)[1]]]]
                        /\ done' = NoDone
    /\ obs' = NoObs
    /\ UNCHANGED <<store, clock, lock, stream, builder, binding>>

\* A caller with nothing in flight executes the builder.
BTreeStart(t, f, index, ok) ==
    /\ task[t].op = "idle"
    /\ BTreeExecute(t, f, index, ok)

\* The kinds of the columns of the table indexed, each column named after its
\* kind; "vector" is a fixed size list of Float32.
ScalarKinds ==
    {"Int32", "UInt8", "Float64", "Boolean", "Utf8", "LargeUtf8", "Binary", "Date32",
     "Time64", "Timestamp", "List"}
BTreeSchema ==
    <<Field("Int32", Primitive("Int32")), Field("UInt8", Primitive("UInt8")),
      Field("Float64", Primitive("Float64")), Field("Boolean", Primitive("Boolean")),
      Field("Utf8", Primitive("Utf8")), Field("LargeUtf8", Primitive("LargeUtf8")),
      Field("Binary", Primitive("Binary")), Field("Date32", Primitive("Date32")),
      Field("Time64", Primitive("Time64")), Field("Timestamp", Primitive("Timestamp")),
      Field("List", Primitive("List")),
      Field("vector", FixedSizeList("Float32", 16))>>

\* The builders executed: no column, each column of the table, a column the
\* table does not have.
BTreeBuilders ==
    {BTreeOf(IndexNew)}
      \cup {BTreeOf(IndexColumn(IndexNew, c)) : c \in ScalarKinds \cup {"vector", "nope"}}

InitBTree ==
    /\ \E rows \in {<<>>, TableOf(2)} : store = <<DatasetWithSchema(rows, BTreeSchema)>>
    /\ clock = 0
    /\ \E i \in {None, Some(0)} :
         wrapper = [f \in Facades |-> IF f = "A" THEN NewLatest(1, i) ELSE Closed]
    /\ lock = [f \in Facades |-> NoTask]
    /\ task = [t \in Tasks |-> Idle]
    /\ stream = NoStream
    /\ builder = NoBuilder
    /\ obs = NoObs
    /\ done = NoDone
    /\ binding = NoBinding

\* Scalar index builds by one caller, each run to its end.
NextBTree ==
    \/ \E index \in BTreeBuilders, ok \in BOOLEAN : BTreeStart("t1", "A", index, ok)
    \/ \E ok \in BOOLEAN : MutAcquire("t1", ok)
    \/ \E ok \in BOOLEAN : MutFinish("t1", ok)

SpecBTree == InitBTree /\ [][NextBTree]_vars

\* The step is the first of a create_btree_index that returns at once / goes on.
BTreeFails ==
    /\ task["t1"].op = "idle"
    /\ done'.tk.op = "create_btree_index"
BTreeGoesOn ==
    /\ task["t1"].op = "idle"
    /\ task'["t1"].op = "create_btree_index"

\* The type of a column of the schema read is one a btree is built on: integer,
\* floating, Boolean, Utf8, Date32/64, Time32/64 or Timestamp.
Indexable(column) ==
    FieldOf(IndexSchema, column).type.kind \in
      {"Int8", "Int16", "Int32", "Int64", "UInt8", "UInt16", "UInt32", "UInt64",
       "Float16", "Float32", "Float64", "Boolean", "Utf8", "Date32", "Date64",
       "Time32", "Time64", "Timestamp"}

\* C23: create_index()...scalar().btree().execute() with no column set fails with
\* InvalidInput, and with a column of the table whose type is not integer,
\* floating, Boolean, Utf8, Date32/64, Time32/64 or Timestamp it fails with
\* Schema (when the schema cannot be read the call fails with the error of the
\* storage before either); in both cases the mutation view is never taken, no
\* index is created and no new version is committed.
C23_BTreeRejects ==
    [][/\ BTreeFails =>
            /\ store' = store /\ lock' = lock /\ task'["t1"] = Idle
            /\ \A index \in {done'.tk.arg.index} :
                 /\ index.columns = None =>
                      /\ done'.res \in {"InvalidInput", "err"}
                      /\ ~NeedsRefresh(wrapper["A"]) => done'.res = "InvalidInput"
                 /\ (/\ index.columns # None
                     /\ Unwrap(index.columns)[1] \in FieldNames(IndexSchema)
                     /\ ~Indexable(Unwrap(index.columns)[1])) =>
                      /\ done'.res \in {"Schema", "err"}
                      /\ ~NeedsRefresh(wrapper["A"]) => done'.res = "Schema"
       /\ BTreeGoesOn =>
            \A index \in {task'["t1"].arg.index} :
               /\ index.columns # None
               /\ Indexable(Unwrap(index.columns)[1])
      ]_vars

\* The build on the LargeUtf8 column returned Schema on a table that has an
\* index already: the table is at the version of that index.
C23_Witness ==
    /\ done.res = "Schema"
    /\ done.tk.op = "create_btree_index"
    /\ done.tk.arg.index.columns = Some(<<"LargeUtf8">>)
    /\ Latest = 2
    /\ lock["A"] = NoTask
    /\ \A i \in store[Latest].indices : i.column = "Utf8"

\* ------------------------------------------------------------------ replace

\* The builders executed: on the inferred or the named column, with replace left
\* alone, set to true or set to false, and with 2 or 3 partitions.
ReplaceBuilders ==
    {IndexNumPartitions(IvfPqOf(common), n) :
       common \in {IndexNew, IndexColumn(IndexNew, "vector"),
                   IndexReplace(IndexColumn(IndexNew, "vector"), TRUE),
                   IndexReplace(IndexColumn(IndexNew, "vector"), FALSE),
                   IndexReplace(IndexColumn(IndexNew, "vector2"), FALSE),
                   IndexColumn(IndexNew, "vector2")},
       n \in {2, 3}}

\* A table with two vector columns, or with one.
InitReplace ==
    /\ \E schema \in {Scalars \o <<Field("vector", FixedSizeList("Float32", 16))>>,
                      Scalars \o <<Field("vector", FixedSizeList("Float32", 16)),
                                   Field("vector2", FixedSizeList("Float32", 8))>>},
          rows \in {<<>>, TableOf(2)} :
         store = <<DatasetWithSchema(rows, schema)>>
    /\ clock = 0
    /\ \E i \in {None, Some(0)} :
         wrapper = [f \in Facades |-> IF f = "A" THEN NewLatest(1, i) ELSE Closed]
    /\ lock = [f \in Facades |-> NoTask]
    /\ task = [t \in Tasks |-> Idle]
    /\ stream = NoStream
    /\ builder = NoBuilder
    /\ obs = NoObs
    /\ done = NoDone
    /\ binding = NoBinding

\* Index builds by one caller, one after the other.
NextReplace ==
    \/ \E index \in ReplaceBuilders, ok \in BOOLEAN : IvfPqStart("t1", "A", index, ok, TRUE)
    \/ \E ok \in BOOLEAN : MutAcquire("t1", ok)
    \/ \E ok \in BOOLEAN : MutFinish("t1", ok)

SpecReplace == InitReplace /\ [][NextReplace]_vars

\* The create_index of the task returns, on a column that has an index.
Rebuilds ==
    /\ IvfPqReturns
    /\ IndexExists(store[task["t1"].snap], task["t1"].arg.column)

PruneDays == 7

\* OptimizeAction
All == [kind |-> "All"]
Compact(options, remap_options) ==
    [kind |-> "Compact", options |-> options, remap_options |-> remap_options]
Prune(older_than, delete_unverified) ==
    [kind |-> "Prune", older_than |-> older_than, delete_unverified |-> delete_unverified]
OptimizeIndex(options) == [kind |-> "Index", options |-> options]

\* OptimizeStats as optimize starts with them.
NoStats == [compaction |-> None, prune |-> None]

\* A faulty order, which prunes before it compacts.
OptimizeStepsPruneFirst(action) ==
    IF action.kind = "All"
    THEN <<Prune(PruneDays, None), Compact("default", None), OptimizeIndex("default")>>
    ELSE <<action>>

\* The actions optimize(action) runs, in their order: All calls optimize again
\* with Compact, then Prune, then Index; any other action is run itself.
OptimizeSteps(action) ==
    IF action.kind = "All"
    THEN <<Compact("default", None), Prune(PruneDays, None), OptimizeIndex("default")>>
    ELSE <<action>>

\* The stats with the result of a step: Compact and Prune set their field,
\* Index returns nothing.
WithResult(stats, action, result) ==
    CASE action.kind = "Compact" -> [stats EXCEPT !.compaction = Some(result)]
      [] action.kind = "Prune" -> [stats EXCEPT !.prune = Some(result)]
      [] OTHER -> stats

\* NativeTable::optimize(action): the call begins; its first step asks for the
\* mutation view. calls is the record of the calls made on the dataset.
OptimizeStart(t, f, action) ==
    /\ task[t].op = "idle"
    /\ IsOpen(f)
    /\ task' = [task EXCEPT ![t] =
                  [Begin(f, "optimize",
                         [action |-> action, steps |-> OptimizeSteps(action),
                          stats |-> NoStats, calls |-> <<>>], <<>>)
                     EXCEPT !.pc = "wait"]]
    /\ obs' = NoObs
    /\ done' = NoDone
    /\ UNCHANGED <<store, clock, wrapper, lock, stream, builder, binding>>

\* compact_files, cleanup_old_versions or optimize_indices returns on the
\* mutation view, with a result or with an error; the view is released. A
\* compaction that rewrote files (result > 0) has committed a version with the
\* same rows. After the last step the stats are returned; otherwise the next step
\* asks for the view.
OptimizeStep(t, ok, result) ==
    LET f == task[t].f
        arg == task[t].arg
        action == Head(arg.steps)
        called == [arg EXCEPT !.calls = Append(@, [action |-> action,
                                                    result |-> IF ok THEN Some(result)
                                                               ELSE None])]
        next == [called EXCEPT !.steps = Tail(@),
                               !.stats = WithResult(@, action, result)]
        commits == action.kind = "Compact" /\ result > 0
    IN  /\ task[t].pc = "run"
        /\ task[t].op = "optimize"
        /\ Release(f)
        /\ IF ~ok
           THEN Finish(t, [task[t] EXCEPT !.arg = called], "err")
                  /\ UNCHANGED <<store, wrapper>>
           ELSE /\ IF commits
                   THEN /\ CanCommit
                        /\ store' = Append(store, Rebased(task[t].snap,
                                                         store[task[t].snap].rows))
                        /\ wrapper' = [wrapper EXCEPT
                                         ![f] = [SetLatest(@, Latest + 1) EXCEPT
                                                   !.acked = Max(@, Latest + 1)]]
                   ELSE UNCHANGED <<store, wrapper>>
                /\ IF next.steps = <<>>
                   THEN Finish(t, [task[t] EXCEPT !.arg = next], "ok")
                   ELSE /\ task' = [task EXCEPT ![t].arg = next, ![t].pc = "wait"]
                        /\ done' = NoDone
        /\ obs' = NoObs
        /\ UNCHANGED <<clock, stream, builder, binding>>

\* The actions optimize is called with.
OptimizeActions ==
    {All, Compact("default", None), Compact("custom", None),
     Prune(PruneDays, None), Prune(1, Some(TRUE)),
     OptimizeIndex("default"), OptimizeIndex("custom")}

\* What the dataset library reports: fragments removed, versions removed.
OptimizeResults == {0, 1, 2}

\* One caller optimizes a table that another adds rows to.
NextOptimize ==
    \/ \E action \in OptimizeActions : OptimizeStart("t1", "A", action)
    \/ \E ok \in BOOLEAN : MutAcquire("t1", ok)
    \/ \E ok \in BOOLEAN, result \in OptimizeResults : OptimizeStep("t1", ok, result)
    \/ AddNew("t2", "A", <<Row(100, 0)>>)
    \/ \E ok \in BOOLEAN : AddWrite(ok)
    \/ AddInstall("t2")

SpecOptimize == Init /\ [][NextOptimize]_vars

\* The calls optimize(All) makes when all of them are made.
AllCalls ==
    <<Compact("default", None), Prune(7, None), OptimizeIndex("default")>>

\* The calls a task has made are the first of AllCalls, in their order, and each
\* but the last has returned a result.
InOrder(tk) ==
    /\ Len(tk.arg.calls) <= Len(AllCalls)
    /\ \A k \in DOMAIN tk.arg.calls :
         /\ tk.arg.calls[k].action = AllCalls[k]
         /\ k < Len(tk.arg.calls) => tk.arg.calls[k].result # None

\* C25: optimize(All) runs compaction (default options), then pruning
\* (older_than = 7 days, delete_unverified = None), then index optimization
\* (default options), each step starting only after the previous one returned
\* successfully; when a step fails the action returns that error and no later
\* step runs; on success the returned stats carry the compaction result of step 1
\* and the prune result of step 2 and nothing from step 3.
C25_OptimizeAll ==
    /\ (task["t1"].op = "optimize" /\ task["t1"].arg.action = All) => InOrder(task["t1"])
    /\ (done.tk.op = "optimize" /\ done.tk.arg.action = All) =>
         /\ InOrder(done.tk)
         /\ task["t1"] = Idle
         /\ done.res = "err" =>
              \A k \in DOMAIN done.tk.arg.calls :
                 done.tk.arg.calls[k].result = None => k = Len(done.tk.arg.calls)
         /\ done.res = "ok" =>
              /\ Len(done.tk.arg.calls) = 3
              /\ \A k \in 1..3 : done.tk.arg.calls[k].result # None
              /\ done.tk.arg.stats = [compaction |-> done.tk.arg.calls[1].result,
                                      prune |-> done.tk.arg.calls[2].result]

\* optimize(All) returned Ok with different results of its three steps, and the
\* stats are those of the first two.
C25_Witness ==
    /\ done.res = "ok"
    /\ done.tk.op = "optimize"
    /\ done.tk.arg.action = All
    /\ done.tk.arg.stats = [compaction |-> Some(2), prune |-> Some(1)]
    /\ done.tk.arg.calls[3].result = Some(0)

\* ------------------------------------------------------------------ open

\* A uri is the sequence of the names of its path; a name is the sequence of its
\* parts between dots ("test.lance" is <<"test", "lance">>, ".." is DotDot).
DotDot == <<"", "", "">>

\* Path::file_name: the last name of the path, none when the path is empty or
\* ends in "..".
FileName(uri) ==
    IF uri = <<>> \/ uri[Len(uri)] = DotDot THEN None ELSE Some(uri[Len(uri)])

\* Path::file_stem: the file name without its extension; a name without dot, or
\* with a leading dot only, is its own stem.
FileStem(uri) ==
    IF FileName(uri) = None THEN None
    ELSE LET name == Unwrap(FileName(uri))
         IN  IF Len(name) = 1 \/ (Len(name) = 2 /\ name[1] = "")
             THEN Some(name)
             ELSE Some(SubSeq(name, 1, Len(name) - 1))

\* OsStr::to_str on the stem of a path made from a &str: it is valid UTF-8.
ToStr(stem) == Some(stem)

\* The result of a call: a value or the kind of an error.
Ok(value) == [ok |-> TRUE, value |-> value, error |-> "none"]
Err(kind) == [ok |-> FALSE, value |-> <<>>, error |-> kind]

\* NativeTable::get_table_name(uri)
GetTableName(uri) ==
    IF FileStem(uri) = None THEN Err("TableNotFound")
    ELSE IF ToStr(Unwrap(FileStem(uri))) = None THEN Err("InvalidTableName")
    ELSE Ok(Unwrap(ToStr(Unwrap(FileStem(uri)))))

\* The uri the dataset of the table was written to.
TableUri == <<<<"tmp">>, <<"test", "lance">>>>

\* The uris opened: that of the table; its directory; a sibling; a name with two
\* dots; a hidden name; the empty path; the root of a path that ends in "..".
Uris ==
    {TableUri, <<<<"tmp">>>>, <<<<"tmp">>, <<"other", "lance">>>>,
     <<<<"tmp">>, <<"test", "v2", "lance">>>>, <<<<"tmp">>, <<"", "lance">>>>,
     <<>>, <<<<"tmp">>, DotDot>>}

\* NativeTable::open(uri): the name is taken from the uri, the dataset is loaded
\* (ok: the storage answers) and wrapped in latest mode without interval.
OpenUri(f, uri, ok) ==
    /\ NextSlot(f)
    /\ LET name == GetTableName(uri)
       IN  IF ~name.ok
           THEN obs' = Observed("open", f, uri, 0, name) /\ UNCHANGED wrapper
           ELSE IF uri # TableUri
           THEN obs' = Observed("open", f, uri, 0, Err("TableNotFound")) /\ UNCHANGED wrapper
           ELSE IF ~ok
           THEN obs' = Observed("open", f, uri, 0, Err("Lance")) /\ UNCHANGED wrapper
           ELSE /\ wrapper' = [wrapper EXCEPT ![f] = NewLatest(Latest, None)]
                /\ obs' = Observed("open", f, uri, Latest, name)
    /\ done' = NoDone
    /\ UNCHANGED <<store, clock, lock, task, stream, builder, binding>>

\* The dataset written at the uri, before any facade is open.
InitOpen ==
    /\ \E rows \in Streams : store = <<Dataset(rows)>>
    /\ clock = 0
    /\ wrapper = [f \in Facades |-> Closed]
    /\ lock = [f \in Facades |-> NoTask]
    /\ task = [t \in Tasks |-> Idle]
    /\ stream = NoStream
    /\ builder = NoBuilder
    /\ obs = NoObs
    /\ done = NoDone
    /\ binding = NoBinding

\* Facades are opened while rows are added through those that are open.
NextOpen ==
    \/ \E f \in Facades, uri \in Uris, ok \in BOOLEAN : OpenUri(f, uri, ok)
    \/ \E f \in Facades : AddNew("t1", f, <<Row(0, 0)>>)
    \/ \E ok \in BOOLEAN : AddWrite(ok)
    \/ AddInstall("t1")

SpecOpen == InitOpen /\ [][NextOpen]_vars

\* The file-stem of a uri as the claim reads it: the last name of the path less
\* its extension, absent when the path has no last name.
HasStem(uri) == uri # <<>> /\ uri[Len(uri)] # <<"", "", "">>

\* C26: open(uri) fails with InvalidTableName whenever the uri has no decodable
\* file-stem and with TableNotFound when the uri has a file-stem but no dataset
\* exists there; when it succeeds, the name of the facade is the file-stem of the
\* uri and the facade is in latest mode at the newest committed version.
C26_Open ==
    obs.kind = "open" =>
       /\ ~HasStem(obs.arg) => obs.val.error = "InvalidTableName"
       /\ (HasStem(obs.arg) /\ obs.arg # TableUri) => obs.val.error = "TableNotFound"
       /\ obs.val.ok =>
            /\ obs.val.value = <<"test">>
            /\ wrapper[obs.f].state = "Latest"
            /\ wrapper[obs.f].ds = Latest
            /\ obs.ver = Latest

\* ------------------------------------------------------------------ bindings

\* The Python class Table, as Table::new makes it: a copy of the name of the
\* table and the table itself (inner, here the facade).
PyTable(name, f) == [name |-> name, inner |-> Some(f)]

\* A faulty inner_ref, which hands out the table of a closed handle.
PyInnerRefAny(h) == Ok("A")

\* Table::inner_ref: the table, or PyRuntimeError "Table {name} is closed".
PyInnerRef(h) == IF h.inner = None THEN Err("TableClosed") ELSE Ok(Unwrap(h.inner))

\* BuilderWrapper::new(name, inner): the single-use holder of a builder. No
\* object of the class exists yet: NoWrapper.
BuilderWrapperNew(name, inner) == [name |-> name, inner |-> Some(inner)]
NoWrapper == [name |-> "none", inner |-> None]
\* BuilderWrapper::consume(mod): the builder is taken out of the holder and
\* handed to mod; a holder that was emptied refuses.
Consume(w) == IF w.inner = None THEN Err("Consumed") ELSE Ok(Unwrap(w.inner))
Consumed(w) == [w EXCEPT !.inner = None]

\* The objects of the binding once a table was opened: its handle, no builder.
PyOpened ==
    [live |-> TRUE, table |-> PyTable(GetTableName(TableUri).value, "A"),
     index |-> NoWrapper, scalar |-> NoWrapper, vector |-> NoWrapper]

\* What a call of the binding returns, and what it leaves alone.
PyReturns(call, arg, val) ==
    /\ obs' = Observed(call, "A", arg, 0, val)
    /\ done' = NoDone
    /\ UNCHANGED <<store, clock, wrapper, lock, stream>>
\* The future a call returns: the operation is scheduled on the runtime.
PyFuture(f, op, arg) == [Idle EXCEPT !.op = op, !.pc = "scheduled", !.f = f, !.arg = arg]

\* Table::name
PyName ==
    /\ binding.live
    /\ PyReturns("Table.name", None, Ok(binding.table.name))
    /\ UNCHANGED <<task, builder, binding>>

\* Table::is_open
PyIsOpen ==
    /\ binding.live
    /\ PyReturns("Table.is_open", None, Ok(binding.table.inner # None))
    /\ UNCHANGED <<task, builder, binding>>

\* Table::close: self.inner.take()
PyClose ==
    /\ binding.live
    /\ binding' = [binding EXCEPT !.table.inner = None]
    /\ PyReturns("Table.close", None, Ok(<<>>))
    /\ UNCHANGED <<task, builder>>

\* Table::schema
PySchema(t) ==
    /\ binding.live
    /\ LET inner == PyInnerRef(binding.table)
       IN  IF ~inner.ok
           THEN PyReturns("Table.schema", None, inner) /\ UNCHANGED task
           ELSE /\ task[t].op = "idle"
                /\ task' = [task EXCEPT ![t] = PyFuture(inner.value, "schema", None)]
                /\ PyReturns("Table.schema", None, Ok("future"))
    /\ UNCHANGED <<builder, binding>>

\* Table::count_rows(filter)
PyCountRows(t, filter) ==
    /\ binding.live
    /\ LET inner == PyInnerRef(binding.table)
       IN  IF ~inner.ok
           THEN PyReturns("Table.count_rows", filter, inner) /\ UNCHANGED task
           ELSE /\ task[t].op = "idle"
                /\ task' = [task EXCEPT ![t] = PyFuture(inner.value, "count_rows", filter)]
                /\ PyReturns("Table.count_rows", filter, Ok("future"))
    /\ UNCHANGED <<builder, binding>>

\* The future of schema or count_rows runs: inner.schema().await,
\* inner.count_rows(filter).await (ok: the refresh of the read succeeds).
PyAwait(t, ok) ==
    LET f == task[t].f
        v == GetVersion(wrapper[f])
    IN  /\ task[t].pc = "scheduled"
        /\ task[t].op \in {"schema", "count_rows"}
        /\ IF NeedsRefresh(wrapper[f]) /\ ~ok
           THEN ReadFails(f)
           ELSE /\ wrapper' = [wrapper EXCEPT ![f] = AfterGet(@)]
                /\ obs' = IF task[t].op = "schema"
                          THEN Observed("schema", f, None, v, store[v].schema)
                          ELSE IF \E x \in task[t].arg : x \notin ValidFilters
                          THEN Observed("error", f, task[t].arg, 0, 0)
                          ELSE Observed("count_rows", f, task[t].arg, v,
                                        CountOf(store[v], task[t].arg))
        /\ task' = [task EXCEPT ![t] = Idle]
        /\ done' = NoDone
        /\ UNCHANGED <<store, clock, lock, stream, builder, binding>>

\* The mode Table::add accepts: "append", "overwrite"; None stands for
\* PyValueError "Invalid mode".
PyAddMode(mode) ==
    IF mode = "append" THEN Some("Append")
    ELSE IF mode = "overwrite" THEN Some("Overwrite")
    ELSE None

\* Table::add(data, mode). data is the batches of an Arrow stream, or None for
\* an object ArrowArrayStreamReader::from_pyarrow rejects. The conversion comes
\* first, then inner_ref, then the builder is made and the mode is checked.
PyAdd(t, data, mode) ==
    /\ binding.live
    /\ LET inner == PyInnerRef(binding.table)
           arg == [data |-> data, mode |-> mode]
       IN  IF data = None
           THEN PyReturns("Table.add", arg, Err("FromPyArrow")) /\ UNCHANGED <<task, builder>>
           ELSE IF ~inner.ok
           THEN PyReturns("Table.add", arg, inner) /\ UNCHANGED <<task, builder>>
           ELSE IF PyAddMode(mode) = None
           THEN PyReturns("Table.add", arg, Err("ValueError")) /\ UNCHANGED <<task, builder>>
           ELSE /\ task[t].op = "idle"
                /\ ~builder.live
                /\ builder' = [live |-> TRUE, t |-> t, f |-> inner.value,
                               data |-> Unwrap(data), mode |-> Unwrap(PyAddMode(mode)),
                               wo |-> None]
                /\ task' = [task EXCEPT ![t] = [Idle EXCEPT !.op = "add", !.pc = "built",
                                                            !.f = inner.value]]
                /\ PyReturns("Table.add", arg, Ok("future"))
    /\ UNCHANGED binding

\* The IndexBuilder of Table::create_index(column, replace) on table f.
PyIndexBuilder(f, column, replace) ==
    LET named == IF column = None THEN IndexNew ELSE IndexColumn(IndexNew, Unwrap(column))
    IN  [parent |-> f,
         common |-> IF replace = None THEN named ELSE IndexReplace(named, Unwrap(replace))]

\* Table::create_index(column, replace): one IndexBuilder object is followed.
PyCreateIndex(column, replace) ==
    /\ binding.live
    /\ LET inner == PyInnerRef(binding.table)
           arg == [column |-> column, replace |-> replace]
       IN  IF ~inner.ok
           THEN PyReturns("Table.create_index", arg, inner) /\ UNCHANGED binding
           ELSE /\ binding.index = NoWrapper
                /\ binding' = [binding EXCEPT !.index =
                                 BuilderWrapperNew("IndexBuilder",
                                                   PyIndexBuilder(inner.value, column, replace))]
                /\ PyReturns("Table.create_index", arg, Ok("IndexBuilder"))
    /\ UNCHANGED <<task, builder>>

\* IndexBuilder::scalar
PyScalar ==
    /\ binding.live
    /\ binding.index # NoWrapper
    /\ LET b == Consume(binding.index)
       IN  IF ~b.ok
           THEN PyReturns("IndexBuilder.scalar", None, b) /\ UNCHANGED binding
           ELSE /\ binding' = [binding EXCEPT
                                 !.index = Consumed(@),
                                 !.scalar = BuilderWrapperNew("ScalarIndexBuilder", b.value)]
                /\ PyReturns("IndexBuilder.scalar", None, Ok("ScalarIndexBuilder"))
    /\ UNCHANGED <<task, builder>>

\* IndexBuilder::vector
PyVector ==
    /\ binding.live
    /\ binding.index # NoWrapper
    /\ LET b == Consume(binding.index)
       IN  IF ~b.ok
           THEN PyReturns("IndexBuilder.vector", None, b) /\ UNCHANGED binding
           ELSE /\ binding' = [binding EXCEPT
                                 !.index = Consumed(@),
                                 !.vector = BuilderWrapperNew("VectorIndexBuilder", b.value)]
                /\ PyReturns("IndexBuilder.vector", None, Ok("VectorIndexBuilder"))
    /\ UNCHANGED <<task, builder>>

\* A faulty btree, which reads the builder and leaves it in its holder.
PyBtreePeeks(t) ==
    /\ binding.live
    /\ binding.scalar # NoWrapper
    /\ LET b == Consume(binding.scalar)
       IN  IF ~b.ok
           THEN PyReturns("ScalarIndexBuilder.btree", None, b) /\ UNCHANGED task
           ELSE /\ task[t].op = "idle"
                /\ task' = [task EXCEPT ![t] =
                              PyFuture(b.value.parent, "create_btree_index",
                                       [index |-> BTreeOf(b.value.common)])]
                /\ PyReturns("ScalarIndexBuilder.btree", None, Ok("future"))
    /\ UNCHANGED <<builder, binding>>

\* ScalarIndexBuilder::btree: the builder is consumed, the future executes it.
PyBtree(t) ==
    /\ binding.live
    /\ binding.scalar # NoWrapper
    /\ LET b == Consume(binding.scalar)
       IN  IF ~b.ok
           THEN PyReturns("ScalarIndexBuilder.btree", None, b) /\ UNCHANGED <<task, binding>>
           ELSE /\ task[t].op = "idle"
                /\ binding' = [binding EXCEPT !.scalar = Consumed(@)]
                /\ task' = [task EXCEPT ![t] =
                              PyFuture(b.value.parent, "create_btree_index",
                                       [index |-> BTreeOf(b.value.common)])]
                /\ PyReturns("ScalarIndexBuilder.btree", None, Ok("future"))
    /\ UNCHANGED builder

\* The distance types ivf_pq accepts, as the DistanceType they stand for.
PyDistanceType(distance_type) ==
    CASE distance_type = "l2" -> Ok("L2")
      [] distance_type = "cosine" -> Ok("Cosine")
      [] distance_type = "dot" -> Ok("Dot")
      [] OTHER -> Err("ValueError")

\* The IvfPqIndexBuilder of ivf_pq(distance_type, num_partitions), distance_type
\* being valid or absent: distance L2 unless given.
PyIvfPqBuilder(common, distance_type, num_partitions) ==
    [index |-> IF num_partitions = None THEN IvfPqOf(common)
               ELSE IndexNumPartitions(IvfPqOf(common), Unwrap(num_partitions)),
     distance_type |-> IF distance_type = None THEN "L2"
                       ELSE PyDistanceType(Unwrap(distance_type)).value]

\* A faulty ivf_pq, which validates distance_type before it consumes the builder.
PyIvfPqValidatesFirst(t, distance_type, num_partitions) ==
    /\ binding.live
    /\ binding.vector # NoWrapper
    /\ LET b == Consume(binding.vector)
           arg == [distance_type |-> distance_type, num_partitions |-> num_partitions]
       IN  IF \E d \in distance_type : ~PyDistanceType(d).ok
           THEN /\ PyReturns("VectorIndexBuilder.ivf_pq", arg, Err("ValueError"))
                /\ UNCHANGED <<task, binding>>
           ELSE IF ~b.ok
           THEN /\ PyReturns("VectorIndexBuilder.ivf_pq", arg, b)
                /\ UNCHANGED <<task, binding>>
           ELSE /\ task[t].op = "idle"
                /\ binding' = [binding EXCEPT !.vector = Consumed(@)]
                /\ task' = [task EXCEPT ![t] =
                              PyFuture(b.value.parent, "create_ivf_pq_index",
                                       PyIvfPqBuilder(b.value.common, distance_type,
                                                      num_partitions))]
                /\ PyReturns("VectorIndexBuilder.ivf_pq", arg, Ok("future"))
    /\ UNCHANGED builder

\* VectorIndexBuilder::ivf_pq(distance_type, num_partitions): the builder is
\* consumed, then distance_type is parsed, then the future executes the builder.
PyIvfPq(t, distance_type, num_partitions) ==
    /\ binding.live
    /\ binding.vector # NoWrapper
    /\ LET b == Consume(binding.vector)
           arg == [distance_type |-> distance_type, num_partitions |-> num_partitions]
       IN  IF ~b.ok
           THEN /\ PyReturns("VectorIndexBuilder.ivf_pq", arg, b)
                /\ UNCHANGED <<task, binding>>
           ELSE IF \E d \in distance_type : ~PyDistanceType(d).ok
           THEN /\ binding' = [binding EXCEPT !.vector = Consumed(@)]
                /\ PyReturns("VectorIndexBuilder.ivf_pq", arg, Err("ValueError"))
                /\ UNCHANGED task
           ELSE /\ task[t].op = "idle"
                /\ binding' = [binding EXCEPT !.vector = Consumed(@)]
                /\ task' = [task EXCEPT ![t] =
                              PyFuture(b.value.parent, "create_ivf_pq_index",
                                       PyIvfPqBuilder(b.value.common, distance_type,
                                                      num_partitions))]
                /\ PyReturns("VectorIndexBuilder.ivf_pq", arg, Ok("future"))
    /\ UNCHANGED builder

\* The future of btree runs: btree_builder.execute().await
BTreeRun(t, ok) ==
    /\ task[t].pc = "scheduled"
    /\ task[t].op = "create_btree_index"
    /\ BTreeExecute(t, task[t].f, task[t].arg.index, ok)

\* The future of ivf_pq runs: ivf_pq_builder.execute().await
IvfPqRun(t, ok, ok2) ==
    /\ task[t].pc = "scheduled"
    /\ task[t].op = "create_ivf_pq_index"
    /\ IvfPqExecute(t, task[t].f, task[t].arg.index, ok, ok2)

\* ------------------------------------------------------------------ handle

\* What is handed to Table::add: no Arrow stream, or a stream of one row; the
\* modes it is called with.
PyData == {None, Some(<<Row(100, 0)>>)}
PyModes == {"append", "overwrite", "create"}

\* A table of two rows, opened through the binding.
InitHandle ==
    /\ store = <<DatasetWithSchema(TableOf(2), Scalars \o
                                  <<Field("vector", FixedSizeList("Float32", 16))>>)>>
    /\ clock = 0
    /\ \E i \in {None, Some(0)} :
         wrapper = [f \in Facades |-> IF f = "A" THEN NewLatest(1, i) ELSE Closed]
    /\ lock = [f \in Facades |-> NoTask]
    /\ task = [t \in Tasks |-> Idle]
    /\ stream = NoStream
    /\ builder = NoBuilder
    /\ obs = NoObs
    /\ done = NoDone
    /\ binding = PyOpened

\* One caller uses the handle and closes it when it likes; the futures it was
\* given run when they are polled: one read and one add at a time.
NextHandle ==
    \/ PyName
    \/ PyIsOpen
    \/ PyClose
    \/ PySchema("t1")
    \/ \E filter \in {None, Some("val = 0")} : PyCountRows("t1", filter)
    \/ \E ok \in BOOLEAN : PyAwait("t1", ok)
    \/ \E data \in PyData, mode \in PyModes : PyAdd("t2", data, mode)
    \/ \E ok \in BOOLEAN : AddWrite(ok)
    \/ AddInstall("t2")
    \/ \E column \in {None, Some("vector")}, replace \in {None, Some(FALSE)} :
         PyCreateIndex(column, replace)

SpecHandle == InitHandle /\ [][NextHandle]_vars

\* The handle is closed; the step is a call of one of the methods that need the
\* table.
HandleClosed == binding.table.inner = None
NeedsTable ==
    obs'.kind \in {"Table.schema", "Table.add", "Table.count_rows", "Table.create_index"}
\* The step starts nothing: no future, no builder, no change of the dataset.
StartsNothing ==
    UNCHANGED <<store, wrapper, lock, task, stream, builder, binding>>

\* What the handle keeps whatever is called.
HandleKeeps ==
    /\ HandleClosed => binding'.table.inner = None
    /\ binding'.table.name = GetTableName(TableUri).value
    /\ obs'.kind = "Table.close" => binding'.table.inner = None
    /\ obs'.kind = "Table.is_open" => obs'.val = Ok(~HandleClosed)
    /\ obs'.kind = "Table.name" => obs'.val = Ok(GetTableName(TableUri).value)

\* C27 as stated: every one of schema, add, count_rows and create_index fails
\* with 'table is closed' on a closed handle.
C27_AsStated ==
    [][/\ HandleKeeps
       /\ (HandleClosed /\ NeedsTable) =>
            (obs'.val = Err("TableClosed") /\ StartsNothing)
      ]_vars

\* C27: once closed the handle stays closed (is_open is false under every later
\* call) and name() returns the name the handle was made with, before and after
\* close. On a closed handle schema, count_rows, create_index, and add of an
\* Arrow stream fail with 'table is closed'; add of an object that is no Arrow
\* stream fails with the error of the conversion, which comes first. None of
\* them starts an operation on the dataset.
C27_Handle ==
    [][/\ HandleKeeps
       /\ (HandleClosed /\ NeedsTable) =>
            /\ StartsNothing
            /\ obs'.val = IF obs'.kind = "Table.add" /\ obs'.arg.data = None
                          THEN Err("FromPyArrow")
                          ELSE Err("TableClosed")
      ]_vars

\* An add through the handle was installed, the handle was closed, and an add of
\* an Arrow stream has just been refused.
C27_Witness ==
    /\ binding.live
    /\ HandleClosed
    /\ Latest = 2
    /\ wrapper["A"].ds = 2
    /\ obs.kind = "Table.add"
    /\ obs.arg.data # None
    /\ obs.val = Err("TableClosed")

\* ------------------------------------------------------------------ versions

\* merge_insert as an upsert: when_matched_update() and when_not_matched_insert().
VersionMerge == WhenNotMatchedInsert(WhenMatchedUpdate(MergeInsertNew))

\* Two callers run add, update and merge_insert on facade A, each step by step;
\* version() is read in between.
NextVersions ==
    \/ \E t \in Tasks : AddNew(t, "A", <<Row(0, 0)>>)
    \/ \E ok \in BOOLEAN : AddWrite(ok)
    \/ \E t \in Tasks : AddInstall(t)
    \/ \E t \in Tasks, ok \in BOOLEAN : UpdateRead(t, "A", None, <<<<"val", 1>>>>, ok)
    \/ \E t \in Tasks, ok \in BOOLEAN : UpdateExecute(t, ok)
    \/ \E t \in Tasks : UpdateInstall(t)
    \/ \E t \in Tasks, ok \in BOOLEAN :
         MergeRead(t, "A", VersionMerge, <<Row(0, 3), Row(3, 3)>>, ok)
    \/ \E t \in Tasks, ok \in BOOLEAN : MergeExecute(t, ok)
    \/ \E t \in Tasks : MergeInstall(t)
    \/ \E ok \in BOOLEAN : Version("A", ok)

SpecVersions == InitUpdate /\ [][NextVersions]_vars

\* C28: the version a read of a facade in latest mode returns never decreases
\* while add, update and merge_insert run concurrently on the facade, and once
\* all of them have finished it is the newest committed version.
C28_VersionMonotone ==
    [][/\ GetVersion(wrapper'["A"]) >= GetVersion(wrapper["A"])
       /\ obs'.kind = "version" => obs'.ver = GetVersion(wrapper["A"])
       /\ ((\A t \in Tasks : task'[t].op = "idle") /\ ~builder'.live) =>
            GetVersion(wrapper'["A"]) = Len(store')
      ]_vars

\* ------------------------------------------------------------------ builder chain

\* The distance types ivf_pq is called with: none, the three it knows, and two
\* it does not.
PyDistances == Option({"l2", "cosine", "dot", "L2", "euclidean"})

\* A table of no or two rows, opened through the binding.
InitChain ==
    /\ \E rows \in {<<>>, TableOf(2)} :
         store = <<DatasetWithSchema(rows, Scalars \o
                                     <<Field("vector", FixedSizeList("Float32", 16))>>)>>
    /\ clock = 0
    /\ \E i \in {None, Some(0)} :
         wrapper = [f \in Facades |-> IF f = "A" THEN NewLatest(1, i) ELSE Closed]
    /\ lock = [f \in Facades |-> NoTask]
    /\ task = [t \in Tasks |-> Idle]
    /\ stream = NoStream
    /\ builder = NoBuilder
    /\ obs = NoObs
    /\ done = NoDone
    /\ binding = PyOpened

\* One IndexBuilder is made and its chain is followed, every method called as
\* often as the caller likes; the futures run when they are polled.
NextChain ==
    \/ \E column \in {None, Some("id"), Some("vector")}, replace \in {None, Some(FALSE)} :
         PyCreateIndex(column, replace)
    \/ PyScalar
    \/ PyVector
    \/ \E t \in Tasks : PyBtree(t)
    \/ \E t \in Tasks, distance_type \in PyDistances, num_partitions \in {None, Some(2)} :
         PyIvfPq(t, distance_type, num_partitions)
    \/ \E t \in Tasks, ok \in BOOLEAN : BTreeRun(t, ok)
    \/ \E t \in Tasks, ok \in BOOLEAN, ok2 \in BOOLEAN : IvfPqRun(t, ok, ok2)
    \/ \E t \in Tasks, ok \in BOOLEAN : MutAcquire(t, ok)
    \/ \E t \in Tasks, ok \in BOOLEAN : MutFinish(t, ok)

SpecChain == InitChain /\ [][NextChain]_vars

\* The step is a call of method call on the builder object held in slot w: when
\* the object was used before, the call fails and starts nothing; otherwise it
\* uses the object up.
SingleUse(call, w) ==
    obs'.kind = call =>
      IF w = None
      THEN /\ obs'.val = Err("Consumed")
           /\ UNCHANGED <<store, wrapper, lock, task, builder, binding>>
      ELSE TRUE
Spent(w) == w # NoWrapper /\ w.inner = None

\* C29: the builders of the binding are single-use. On the IndexBuilder at most
\* one of scalar() and vector() succeeds; on the ScalarIndexBuilder or
\* VectorIndexBuilder at most one btree() or ivf_pq() gets the builder; a call on
\* an object that was used fails and starts no index build, and a used object
\* stays used: the chain gives out at most one future and creates at most one
\* index.
C29_SingleUse ==
    [][/\ SingleUse("IndexBuilder.scalar", binding.index.inner)
       /\ SingleUse("IndexBuilder.vector", binding.index.inner)
       /\ SingleUse("ScalarIndexBuilder.btree", binding.scalar.inner)
       /\ SingleUse("VectorIndexBuilder.ivf_pq", binding.vector.inner)
       /\ (obs'.kind \in {"IndexBuilder.scalar", "IndexBuilder.vector"} /\ obs'.val.ok) =>
            Spent(binding'.index)
       /\ (obs'.kind = "ScalarIndexBuilder.btree" /\ obs'.val.ok) => Spent(binding'.scalar)
       /\ (obs'.kind = "VectorIndexBuilder.ivf_pq" /\ obs'.val.ok) => Spent(binding'.vector)
       /\ Spent(binding.index) => binding'.index = binding.index
       /\ Spent(binding.scalar) => binding'.scalar = binding.scalar
       /\ Spent(binding.vector) => binding'.vector = binding.vector
       /\ binding'.scalar = NoWrapper \/ binding'.vector = NoWrapper
       /\ \E t \in Tasks : task'[t].op = "idle"
       /\ (\E t \in Tasks : task'[t].op # "idle") => Len(store') = 1
       /\ Len(store') <= 2
       /\ Cardinality(store'[Len(store')].indices) <= 1
      ]_vars

\* The chain has created its index, and a second btree() on the
\* ScalarIndexBuilder has just been refused.
C29_Witness ==
    /\ Len(store) = 2
    /\ \E i \in store[2].indices : i.column = "id" /\ i.type = "Scalar"
    /\ Spent(binding.index) /\ Spent(binding.scalar)
    /\ obs.kind = "ScalarIndexBuilder.btree"
    /\ obs.val = Err("Consumed")

\* The step is a call of ivf_pq on a VectorIndexBuilder that was not used, with a
\* distance_type ivf_pq does not know.
InvalidDistance ==
    /\ obs'.kind = "VectorIndexBuilder.ivf_pq"
    /\ binding.vector.inner # None
    /\ obs'.arg.distance_type \notin Option({"l2", "cosine", "dot"})

\* C30: ivf_pq consumes the builder before it looks at distance_type. A call
\* with a distance_type other than "l2", "cosine" or "dot" fails, gives out no
\* future, creates no index and leaves the table alone, and the builder is spent:
\* every ivf_pq on a spent VectorIndexBuilder fails, whatever its arguments, and
\* starts nothing.
C30_ConsumedFirst ==
    [][/\ InvalidDistance =>
            /\ obs'.val = Err("ValueError")
            /\ Spent(binding'.vector)
            /\ UNCHANGED <<store, wrapper, lock, task, builder>>
       /\ (obs'.kind = "VectorIndexBuilder.ivf_pq" /\ Spent(binding.vector)) =>
            /\ obs'.val = Err("Consumed")
            /\ UNCHANGED <<store, wrapper, lock, task, builder, binding>>
       /\ Spent(binding.vector) => Spent(binding'.vector)
      ]_vars

\* ivf_pq has just been refused for its distance_type: the VectorIndexBuilder is
\* spent, no future was given out and the table is as it was opened.
C30_Witness ==
    /\ obs.kind = "VectorIndexBuilder.ivf_pq"
    /\ obs.arg.distance_type = Some("euclidean")
    /\ obs.val = Err("ValueError")
    /\ Spent(binding.vector)
    /\ \A t \in Tasks : task[t].op = "idle"
    /\ Len(store) = 1
    /\ wrapper["A"].ds = 1
====
